---- MODULE Spec2Model ----
(***************************************************************************)
(* Model of the devzero Terraform provider: provider Configure and the     *)
(* Create/Read/Update/Delete/ImportState handlers of the five resources    *)
(* (cluster, node policy, node policy target, workload policy, workload    *)
(* policy target), together with the converters the handlers call.         *)
(*                                                                         *)
(* One resource instance is followed at a time (the resources share no     *)
(* mutable state).  The backend is an adversary: every RPC may fail or     *)
(* answer with any response of the right shape; `remote' only remembers    *)
(* which record ids exist for the team.                                    *)
(***************************************************************************)
EXTENDS Integers, Sequences, FiniteSets, TLC

VARIABLES
    kind,      \* which resource type the followed instance is
    client,    \* the ClientSet handed to resources by provider Configure
    state,     \* the Terraform state of the instance (resp.State / req.State)
    remote,    \* ids of the records the backend holds for the team
    last       \* what the last operation did: rpcs, diagnostics, outcome

vars == <<kind, client, state, remote, last>>

----------------------------------------------------------------------------
(* Bounds *)

MaxId == 2      \* number of distinct record ids
MaxLen == 1     \* longest planned list attribute

----------------------------------------------------------------------------
(* Values of the plugin framework's attribute types *)

Null == "<null>"          \* types.StringNull()
Unknown == "<unknown>"    \* types.StringUnknown()

\* String.ValueString(): the empty string for a null or unknown value
ValueString(s) == IF s \in {Null, Unknown} THEN "" ELSE s

\* a types.List: null, or known with elements
ListNull == [null |-> TRUE, elems |-> <<>>]
ListValue(elems) == [null |-> FALSE, elems |-> elems]

\* a types.Bool: null, or known with a value; ValueBool() is false for null
BoolNull == [null |-> TRUE]
BoolValue(b) == [null |-> FALSE, bool |-> b]
ValueBoolAlwaysTrue(v) == TRUE

ValueBool(v) == IF v.null THEN FALSE ELSE v.bool

\* a types.Map: null, or known with the function from its keys to its values
MapNull == [null |-> TRUE, elems |-> <<>>]
MapValue(elems) == [null |-> FALSE, elems |-> elems]

Nil == [nil |-> TRUE]     \* a nil message pointer in a response
NoErr == ""               \* err == nil
NilString == "<nil>"      \* a nil *string in a message

IdNames == <<"id-1", "id-2", "id-3", "id-4">>
Ids == {IdNames[i] : i \in 1..MaxId}
Names == {"alpha", "beta"}
RpcErrors == {"unavailable", "permission_denied"}

Kinds == {"cluster", "node_policy", "node_policy_target",
          "workload_policy", "workload_policy_target"}

NoState == [present |-> FALSE]     \* state.Raw is null: no such resource
NoClient == [configured |-> FALSE]

ErrorDiag(summary, detail, text) ==
    [severity |-> "error", summary |-> summary, detail |-> detail, text |-> text]

HasError(diags) == \E i \in 1..Len(diags) : diags[i].severity = "error"

----------------------------------------------------------------------------
(* utils.go *)

\* one iteration of the loop of getElementList: ToTerraformValue, As, converter
\* (converter is the function from element values to the converter's results)
ElementResult(value, converter) ==
    IF value = Unknown
    THEN [ok |-> FALSE, err |-> "unhandled unknown value"]
    ELSE converter[IF value = Null THEN "" ELSE value]

\* the values the converter of a list can be called with
ElementValues(values) ==
    {IF values[i] = Null THEN "" ELSE values[i] : i \in 1..Len(values)}

getElementListKeepingConverted(values, converter) ==
    LET results == [i \in 1..Len(values) |-> ElementResult(values[i], converter)]
        good == SelectSeq(results, LAMBDA r : r.ok)
        bad == SelectSeq(results, LAMBDA r : ~r.ok)
        elements == [i \in 1..Len(good) |-> good[i].val]
        errs == [i \in 1..Len(bad) |-> bad[i].err]
    IN [elements |-> elements, err |-> errs]

getElementList(values, converter) ==
    LET results == [i \in 1..Len(values) |-> ElementResult(values[i], converter)]
        good == SelectSeq(results, LAMBDA r : r.ok)
        bad == SelectSeq(results, LAMBDA r : ~r.ok)
        elements == [i \in 1..Len(good) |-> good[i].val]
        errs == [i \in 1..Len(bad) |-> bad[i].err]
    IN IF Len(errs) > 0
       THEN [elements |-> <<>>, err |-> errs]
       ELSE [elements |-> elements, err |-> <<>>]

StringConverter(value) == [ok |-> TRUE, val |-> value]

getStringList(values) ==
    getElementList(values, [value \in ElementValues(values) |-> StringConverter(value)])

fromStringList(values) == values

\* getElementMap: values is the function from keys to attribute values; every
\* failure of the string maps converted here carries the same text
getElementMap(values, converter) ==
    LET results == [k \in DOMAIN values |-> ElementResult(values[k], converter)]
        bad == {k \in DOMAIN values : ~results[k].ok}
    IN IF bad # {}
       THEN [elements |-> <<>>,
             err |-> [i \in 1..Cardinality(bad) |-> results[CHOOSE k \in bad : TRUE].err]]
       ELSE [elements |-> [k \in DOMAIN values |-> results[k].val], err |-> <<>>]

\* the values the converter of a map can be called with
MapElementValues(values) ==
    {IF values[k] = Null THEN "" ELSE values[k] : k \in DOMAIN values}

getStringMap(values) ==
    getElementMap(values, [value \in MapElementValues(values) |-> StringConverter(value)])

fromStringMap(values) == values

----------------------------------------------------------------------------
(* provider.go: DevzeroProvider.Configure *)

defaultURL == "https://dakr.devzero.io"

\* the client set built at the end of Configure
\* the interceptor of Configure: the header it sets on every request it sees
authInterceptor(token) == "Bearer " \o token

\* a connect client: its base URL and what its interceptors set as the
\* Authorization header of a request (empty without an interceptor)
NewClient(url, authorization) == [url |-> url, Authorization |-> authorization]

ClientSetPlainReads(url, teamId, token) ==
    [configured |-> TRUE, TeamId |-> teamId, url |-> url, token |-> token,
     ClusterMutationClient |-> NewClient(url, authInterceptor(token)),
     K8SServiceClient |-> NewClient(url, ""),
     RecommendationClient |-> NewClient(url, authInterceptor(token))]

ClientSet(url, teamId, token) ==
    [configured |-> TRUE, TeamId |-> teamId, url |-> url, token |-> token,
     ClusterMutationClient |-> NewClient(url, authInterceptor(token)),
     K8SServiceClient |-> NewClient(url, authInterceptor(token)),
     RecommendationClient |-> NewClient(url, authInterceptor(token))]

UnknownDiags(data) ==
    (IF data.url = Unknown
     THEN <<ErrorDiag("Unknown Devzero API URL", "url", "")>> ELSE <<>>)
    \o (IF data.team_id = Unknown
        THEN <<ErrorDiag("Unknown Devzero Team ID", "team_id", "")>> ELSE <<>>)
    \o (IF data.token = Unknown
        THEN <<ErrorDiag("Unknown Devzero API Token", "token", "")>> ELSE <<>>)

ResolveSettingEnvFirst(configured, fromEnv) ==
    IF fromEnv # "" THEN fromEnv ELSE ValueString(configured)

\* url, teamId, token after the environment and the configuration are read
ResolveSetting(configured, fromEnv) ==
    IF configured # Null THEN ValueString(configured) ELSE fromEnv

ResolveURL(configured, fromEnv) ==
    LET url == ResolveSetting(configured, fromEnv)
    IN IF url = "" THEN defaultURL ELSE url

MissingDiagsTeamOnly(teamId, token) ==
    IF teamId = ""
    THEN <<ErrorDiag("Missing Devzero Team ID", "team_id", "")>> ELSE <<>>

MissingDiags(teamId, token) ==
    (IF teamId = ""
     THEN <<ErrorDiag("Missing Devzero Team ID", "team_id", "")>> ELSE <<>>)
    \o (IF token = ""
        THEN <<ErrorDiag("Missing Devzero API Token", "token", "")>> ELSE <<>>)

Configure(data, env) ==
    LET unknownDiags == UnknownDiags(data)
        url == ResolveURL(data.url, env.DEVZERO_URL)
        teamId == ResolveSetting(data.team_id, env.DEVZERO_TEAM_ID)
        token == ResolveSetting(data.token, env.DEVZERO_TOKEN)
        diags == IF HasError(unknownDiags) THEN unknownDiags
                 ELSE MissingDiags(teamId, token)
    IN /\ client = NoClient
       /\ last.op = "init"
       /\ client' = IF HasError(diags) THEN NoClient
                    ELSE ClientSet(url, teamId, token)
       /\ last' = [op |-> "Configure", data |-> data, env |-> env,
                   rpcs |-> <<>>, diags |-> diags, panicked |-> FALSE]
       /\ UNCHANGED <<kind, state, remote>>

ConfigValues(v) == {Null, Unknown, "", v}
EnvValues(v) == {"", v}

ProviderData ==
    [url : ConfigValues("https://cfg.example"),
     team_id : ConfigValues("team-cfg"),
     token : ConfigValues("token-cfg")]

ProviderEnv ==
    [DEVZERO_URL : EnvValues("https://env.example"),
     DEVZERO_TEAM_ID : EnvValues("team-env"),
     DEVZERO_TOKEN : EnvValues("token-env")]

ProviderConfigure ==
    \E data \in ProviderData, env \in ProviderEnv : Configure(data, env)

\* the configurations followed into the resource handlers: team id and token
\* both come from the configuration or both from the environment, or are missing
SessionConfigure ==
    \E data \in {d \in ProviderData :
                    /\ d.url = Null
                    /\ <<d.team_id, d.token>> \in {<<Null, Null>>,
                                                   <<"team-cfg", "token-cfg">>}},
       env \in {e \in ProviderEnv :
                    /\ e.DEVZERO_URL = ""
                    /\ <<e.DEVZERO_TEAM_ID, e.DEVZERO_TOKEN>> \in
                           {<<"", "">>, <<"team-env", "token-env">>}} :
        Configure(data, env)

----------------------------------------------------------------------------
(* What a handler invocation leaves behind *)

\* the client of the client set a handler calls an RPC on
ServiceClient(name) ==
    CASE name \in {"CreateCluster", "UpdateCluster", "ResetClusterToken",
                   "DeleteCluster"} -> client.ClusterMutationClient
      [] name = "GetCluster" -> client.K8SServiceClient
      [] OTHER -> client.RecommendationClient

\* one call: the request as it leaves the client, and what came back
Rpc(name, req, err, resp) ==
    [rpc |-> name, req |-> req, err |-> err, resp |-> resp,
     Authorization |-> ServiceClient(name).Authorization]

StateId(st) == IF st.present THEN st.id ELSE Null

\* the handler returned (or panicked): the framework keeps resp.State
Finish(op, plan, rpcs, diags, wrote, newState, newRemote, panicked) ==
    /\ last' = [op |-> op, id |-> StateId(state), plan |-> plan, rpcs |-> rpcs,
                diags |-> diags, wrote |-> wrote, panicked |-> panicked]
    /\ state' = newState
    /\ remote' = newRemote
    /\ UNCHANGED <<kind, client>>

\* Delete: the framework removes the resource from state unless the handler
\* reported an error
AfterDelete(diags) == IF HasError(diags) THEN state ELSE NoState

RpcErrorDiagWithoutText(what, e) ==
    ErrorDiag("Client Error", "Unable to " \o what, "")

RpcErrorDiag(what, e) ==
    ErrorDiag("Client Error", "Unable to " \o what \o ", got error: ", e)

Ready(k) == kind = k /\ client # NoClient

----------------------------------------------------------------------------
(* cluster.go *)

ClusterMessages ==
    [nil : {FALSE}, Id : Ids, Name : {"alpha"}, CustomName : {"", "beta"}]

Failures == [err : RpcErrors]

CreateClusterResults ==
    Failures \cup [err : {NoErr}, Cluster : {Nil} \cup ClusterMessages,
                   Token : {"", "tok-1"}]
GetClusterResults ==
    Failures \cup [err : {NoErr}, Cluster : {Nil} \cup ClusterMessages]
UpdateClusterResults ==
    Failures \cup [err : {NoErr}, Cluster : {Nil} \cup ClusterMessages]
ResetClusterTokenResults ==
    Failures \cup [err : {NoErr}, Token : {"", "tok-2"}]
DeleteResults == Failures \cup [err : {NoErr}]

\* the plan the framework proposes for a cluster: id and token are computed
\* attributes with UseStateForUnknown
ClusterPlan(st, name) ==
    [id |-> IF st.present /\ st.id # Null THEN st.id ELSE Unknown,
     name |-> name,
     token |-> IF st.present /\ st.token # Null THEN st.token ELSE Unknown]

\* plan is Nil when the resource is planned for destruction
ModifyPlanEveryUpdate(st, plan) ==
    IF ~st.present THEN plan
    ELSE IF plan # Nil THEN [plan EXCEPT !.token = Unknown] ELSE plan

ModifyPlan(st, plan) ==
    IF ~st.present THEN plan
    ELSE IF st.token = Null \/ ValueString(st.token) = ""
         THEN IF plan # Nil THEN [plan EXCEPT !.token = Unknown] ELSE plan
         ELSE plan

TokenMissingOnlyNull(token) == token = Null

\* the condition under which Update rotates the token
TokenMissing(token) ==
    token = Null \/ token = Unknown \/ ValueString(token) = ""

ClusterState(data) ==
    [present |-> TRUE, id |-> data.id, name |-> data.name, token |-> data.token]

ClusterCreateAcceptingEmptyToken ==
    /\ Ready("cluster")
    /\ state = NoState
    /\ \E name \in Names, res \in CreateClusterResults :
        LET data == ModifyPlan(state, ClusterPlan(state, name))
            req == [TeamId |-> client.TeamId, ClusterName |-> ValueString(data.name)]
        IN IF res.err # NoErr
           THEN Finish("Create", data, <<Rpc("CreateCluster", req, res.err, Nil)>>,
                       <<RpcErrorDiag("create cluster", res.err)>>,
                       FALSE, state, remote, FALSE)
           ELSE LET rpcs == <<Rpc("CreateCluster", req, NoErr, res)>>
                    created == IF res.Cluster = Nil THEN remote
                               ELSE remote \cup {res.Cluster.Id}
                IN IF res.Cluster = Nil
                   THEN Finish("Create", data, rpcs,
                               <<ErrorDiag("Client Error", "Cluster not created", "")>>,
                               FALSE, state, created, FALSE)
                   ELSE Finish("Create", data, rpcs, <<>>, TRUE,
                               ClusterState([data EXCEPT !.id = res.Cluster.Id,
                                                         !.token = res.Token]),
                               created, FALSE)

ClusterCreate ==
    /\ Ready("cluster")
    /\ state = NoState
    /\ \E name \in Names, res \in CreateClusterResults :
        LET data == ModifyPlan(state, ClusterPlan(state, name))
            req == [TeamId |-> client.TeamId, ClusterName |-> ValueString(data.name)]
        IN IF res.err # NoErr
           THEN Finish("Create", data, <<Rpc("CreateCluster", req, res.err, Nil)>>,
                       <<RpcErrorDiag("create cluster", res.err)>>,
                       FALSE, state, remote, FALSE)
           ELSE LET rpcs == <<Rpc("CreateCluster", req, NoErr, res)>>
                    created == IF res.Cluster = Nil THEN remote
                               ELSE remote \cup {res.Cluster.Id}
                IN IF res.Cluster = Nil \/ res.Token = ""
                   THEN Finish("Create", data, rpcs,
                               <<ErrorDiag("Client Error", "Cluster not created", "")>>,
                               FALSE, state, created, FALSE)
                   ELSE Finish("Create", data, rpcs, <<>>, TRUE,
                               ClusterState([data EXCEPT !.id = res.Cluster.Id,
                                                         !.token = res.Token]),
                               created, FALSE)

ClusterRead ==
    /\ Ready("cluster")
    /\ state # NoState
    /\ \E res \in GetClusterResults :
        LET data == state
            req == [TeamId |-> client.TeamId, ClusterId |-> ValueString(data.id)]
        IN IF res.err # NoErr
           THEN Finish("Read", Nil, <<Rpc("GetCluster", req, res.err, Nil)>>,
                       <<RpcErrorDiag("get cluster", res.err)>>,
                       FALSE, state, remote, FALSE)
           ELSE LET rpcs == <<Rpc("GetCluster", req, NoErr, res)>>
                IN IF res.Cluster = Nil
                   THEN Finish("Read", Nil, rpcs,
                               <<ErrorDiag("Client Error", "Cluster not found", "")>>,
                               FALSE, state, remote, FALSE)
                   ELSE LET name == IF res.Cluster.CustomName = ""
                                    THEN res.Cluster.Name
                                    ELSE res.Cluster.CustomName
                        IN Finish("Read", Nil, rpcs, <<>>, TRUE,
                                  [data EXCEPT !.name = name], remote, FALSE)

ClusterUpdateSavingName ==
    /\ Ready("cluster")
    /\ state # NoState
    /\ \E name \in Names, res \in UpdateClusterResults :
        LET data == ModifyPlan(state, ClusterPlan(state, name))
            req == [TeamId |-> client.TeamId, ClusterId |-> ValueString(data.id),
                    ClusterName |-> ValueString(data.name)]
        IN IF res.err # NoErr
           THEN Finish("Update", data, <<Rpc("UpdateCluster", req, res.err, Nil)>>,
                       <<RpcErrorDiag("update cluster", res.err)>>,
                       FALSE, state, remote, FALSE)
           ELSE LET updated == Rpc("UpdateCluster", req, NoErr, res)
                IN IF res.Cluster = Nil
                   THEN Finish("Update", data, <<updated>>,
                               <<ErrorDiag("Client Error", "Cluster not updated", "")>>,
                               FALSE, state, remote, FALSE)
                   ELSE LET named == [data EXCEPT !.name = res.Cluster.CustomName]
                        IN IF TokenMissing(data.token)
                           THEN \E reset \in ResetClusterTokenResults :
                                LET resetReq == [TeamId |-> client.TeamId,
                                                 ClusterId |-> ValueString(data.id)]
                                IN IF reset.err # NoErr
                                   THEN Finish("Update", data,
                                            <<updated, Rpc("ResetClusterToken", resetReq, reset.err, Nil)>>,
                                            <<RpcErrorDiag("reset cluster token", reset.err)>>,
                                            TRUE, ClusterState(named), remote, FALSE)
                                   ELSE LET rpcs == <<updated, Rpc("ResetClusterToken", resetReq, NoErr, reset)>>
                                        IN IF reset.Token = ""
                                           THEN Finish("Update", data, rpcs,
                                                    <<ErrorDiag("Client Error",
                                                        "Cluster token reset returned empty token", "")>>,
                                                    FALSE, state, remote, FALSE)
                                           ELSE Finish("Update", data, rpcs, <<>>, TRUE,
                                                    ClusterState([named EXCEPT !.token = reset.Token]),
                                                    remote, FALSE)
                           ELSE Finish("Update", data, <<updated>>, <<>>, TRUE,
                                       ClusterState(named), remote, FALSE)

ClusterUpdate ==
    /\ Ready("cluster")
    /\ state # NoState
    /\ \E name \in Names, res \in UpdateClusterResults :
        LET data == ModifyPlan(state, ClusterPlan(state, name))
            req == [TeamId |-> client.TeamId, ClusterId |-> ValueString(data.id),
                    ClusterName |-> ValueString(data.name)]
        IN IF res.err # NoErr
           THEN Finish("Update", data, <<Rpc("UpdateCluster", req, res.err, Nil)>>,
                       <<RpcErrorDiag("update cluster", res.err)>>,
                       FALSE, state, remote, FALSE)
           ELSE LET updated == Rpc("UpdateCluster", req, NoErr, res)
                IN IF res.Cluster = Nil
                   THEN Finish("Update", data, <<updated>>,
                               <<ErrorDiag("Client Error", "Cluster not updated", "")>>,
                               FALSE, state, remote, FALSE)
                   ELSE LET named == [data EXCEPT !.name = res.Cluster.CustomName]
                        IN IF TokenMissing(data.token)
                           THEN \E reset \in ResetClusterTokenResults :
                                LET resetReq == [TeamId |-> client.TeamId,
                                                 ClusterId |-> ValueString(data.id)]
                                IN IF reset.err # NoErr
                                   THEN Finish("Update", data,
                                            <<updated, Rpc("ResetClusterToken", resetReq, reset.err, Nil)>>,
                                            <<RpcErrorDiag("reset cluster token", reset.err)>>,
                                            FALSE, state, remote, FALSE)
                                   ELSE LET rpcs == <<updated, Rpc("ResetClusterToken", resetReq, NoErr, reset)>>
                                        IN IF reset.Token = ""
                                           THEN Finish("Update", data, rpcs,
                                                    <<ErrorDiag("Client Error",
                                                        "Cluster token reset returned empty token", "")>>,
                                                    FALSE, state, remote, FALSE)
                                           ELSE Finish("Update", data, rpcs, <<>>, TRUE,
                                                    ClusterState([named EXCEPT !.token = reset.Token]),
                                                    remote, FALSE)
                           ELSE Finish("Update", data, <<updated>>, <<>>, TRUE,
                                       ClusterState(named), remote, FALSE)

ClusterDeleteSwallowingError ==
    /\ Ready("cluster")
    /\ state # NoState
    /\ \E res \in DeleteResults :
        LET req == [TeamId |-> client.TeamId, ClusterId |-> ValueString(state.id)]
        IN Finish("Delete", Nil, <<Rpc("DeleteCluster", req, res.err, Nil)>>, <<>>,
                  FALSE, AfterDelete(<<>>),
                  IF res.err # NoErr THEN remote ELSE remote \ {ValueString(state.id)},
                  FALSE)

ClusterDelete ==
    /\ Ready("cluster")
    /\ state # NoState
    /\ \E res \in DeleteResults :
        LET data == state
            req == [TeamId |-> client.TeamId, ClusterId |-> ValueString(data.id)]
            diags == IF res.err # NoErr
                     THEN <<RpcErrorDiag("delete cluster", res.err)>> ELSE <<>>
        IN Finish("Delete", ModifyPlan(state, Nil),
                  <<Rpc("DeleteCluster", req, res.err, Nil)>>, diags,
                  FALSE, AfterDelete(diags),
                  IF res.err # NoErr THEN remote ELSE remote \ {ValueString(data.id)},
                  FALSE)

\* resource.ImportStatePassthroughID: a state holding the id and nothing else
ClusterImportState ==
    /\ Ready("cluster")
    /\ state = NoState
    /\ \E id \in Ids :
        Finish("Import", Nil, <<>>, <<>>, TRUE,
               [present |-> TRUE, id |-> id, name |-> Null, token |-> Null],
               remote, FALSE)

----------------------------------------------------------------------------
(* Inputs and responses shared by the policy and target resources *)

SeqsUpTo(S, n) == UNION {[1..m -> S] : m \in 0..n}

\* the ids of `remote' in a fixed order, as a list RPC returns them
ListedIds == SelectSeq([i \in 1..MaxId |-> IdNames[i]], LAMBDA id : id \in remote)

\* the planned id: computed, with UseStateForUnknown
PlannedId(st) == IF st.present /\ st.id # Null THEN st.id ELSE Unknown

\* the text of errors.Join(errs...): the messages, one per line
RECURSIVE JoinedText(_)
JoinedText(errs) ==
    IF Len(errs) = 0 THEN ""
    ELSE IF Len(errs) = 1 THEN errs[1]
         ELSE errs[1] \o "\n" \o JoinedText(Tail(errs))

ConversionDiag(summary, what, errs) ==
    ErrorDiag(summary, "Unable to convert " \o what, JoinedText(errs))

NotDiag(detail) == ErrorDiag("Client Error", detail, "")

\* index of the first entry of a list response whose id is the wanted one
\* (0 when there is none)
FirstMatch(ids, wanted) ==
    IF \E i \in 1..Len(ids) : ids[i] = wanted
    THEN CHOOSE i \in 1..Len(ids) :
            /\ ids[i] = wanted
            /\ \A j \in 1..(i - 1) : ids[j] # wanted
    ELSE 0

----------------------------------------------------------------------------
(* node_policy_target.go *)

ClusterIdElems == {"id-1", Unknown}
WireClusterIds == {<<>>, <<"id-1">>}

NodePolicyTargetMessages ==
    [nil : {FALSE}, TargetId : Ids, Name : Names, ClusterIds : WireClusterIds,
     PolicyId : {"policy-1"}, Description : {""}, Enabled : {TRUE}]

NodePolicyTargetPlans(st) ==
    [id : {PlannedId(st)}, name : Names,
     cluster_ids : {ListValue(e) : e \in SeqsUpTo(ClusterIdElems, MaxLen)},
     policy_id : {"policy-1"}, description : {""}, enabled : {BoolValue(TRUE)}]

\* NodePolicyTargetResourceModel.toProto: the message, and the diagnostics added
NodePolicyTargetToProto(m, teamId) ==
    LET clusterIds == getStringList(m.cluster_ids.elems)
    IN IF Len(clusterIds.err) > 0
       THEN [msg |-> Nil,
             diags |-> <<ConversionDiag("Conversion Error", "cluster IDs", clusterIds.err)>>]
       ELSE [msg |-> [nil |-> FALSE, TargetId |-> ValueString(m.id),
                      Name |-> ValueString(m.name),
                      Description |-> ValueString(m.description), TeamId |-> teamId,
                      ClusterIds |-> clusterIds.elements,
                      PolicyId |-> ValueString(m.policy_id),
                      Enabled |-> ValueBool(m.enabled)],
             diags |-> <<>>]

NodePolicyTargetFromProtoWrongField(m, target) ==
    [present |-> TRUE, id |-> target.Name, policy_id |-> target.PolicyId,
     name |-> target.Name, description |-> target.Description,
     enabled |-> BoolValue(target.Enabled),
     cluster_ids |-> ListValue(fromStringList(target.ClusterIds))]

NodePolicyTargetFromProto(m, target) ==
    [present |-> TRUE, id |-> target.TargetId, policy_id |-> target.PolicyId,
     name |-> target.Name, description |-> target.Description,
     enabled |-> BoolValue(target.Enabled),
     cluster_ids |-> ListValue(fromStringList(target.ClusterIds))]

NodePolicyTargetCreate ==
    /\ Ready("node_policy_target")
    /\ state = NoState
    /\ \E data \in NodePolicyTargetPlans(state) :
        LET target == NodePolicyTargetToProto(data, client.TeamId)
        IN IF HasError(target.diags)
           THEN Finish("Create", data, <<>>, target.diags, FALSE, state, remote, FALSE)
           ELSE \E res \in Failures \cup
                           [err : {NoErr},
                            Targets : {<<>>} \cup {<<t>> : t \in NodePolicyTargetMessages}] :
                LET req == [Targets |-> <<target.msg>>]
                IN IF res.err # NoErr
                   THEN Finish("Create", data,
                               <<Rpc("CreateNodePolicyTargets", req, res.err, Nil)>>,
                               <<RpcErrorDiag("create node policy target", res.err)>>,
                               FALSE, state, remote, FALSE)
                   ELSE LET rpcs == <<Rpc("CreateNodePolicyTargets", req, NoErr, res)>>
                        IN IF Len(res.Targets) = 0
                           THEN Finish("Create", data, rpcs,
                                       <<NotDiag("Node policy target not created")>>,
                                       FALSE, state, remote, FALSE)
                           ELSE Finish("Create", data, rpcs, <<>>, TRUE,
                                       NodePolicyTargetFromProto(data, res.Targets[1]),
                                       remote \cup {res.Targets[1].TargetId}, FALSE)

NodePolicyTargetRead ==
    /\ Ready("node_policy_target")
    /\ state # NoState
    /\ \E res \in Failures \cup
                  {[err |-> NoErr,
                    Targets |-> [i \in 1..Len(ListedIds) |->
                                    [nil |-> FALSE, TargetId |-> ListedIds[i],
                                     Name |-> name, ClusterIds |-> ids,
                                     PolicyId |-> "policy-1", Description |-> "",
                                     Enabled |-> TRUE]]] :
                       name \in Names, ids \in WireClusterIds} :
        LET data == state
            req == [TeamId |-> client.TeamId]
        IN IF res.err # NoErr
           THEN Finish("Read", Nil, <<Rpc("ListNodePolicyTargets", req, res.err, Nil)>>,
                       <<RpcErrorDiag("list node policy targets", res.err)>>,
                       FALSE, state, remote, FALSE)
           ELSE LET rpcs == <<Rpc("ListNodePolicyTargets", req, NoErr, res)>>
                    found == FirstMatch([i \in 1..Len(res.Targets) |-> res.Targets[i].TargetId],
                                        ValueString(data.id))
                IN IF found = 0
                   THEN Finish("Read", Nil, rpcs,
                               <<NotDiag("Node policy target not found")>>,
                               FALSE, state, remote, FALSE)
                   ELSE Finish("Read", Nil, rpcs, <<>>, TRUE,
                               NodePolicyTargetFromProto(data, res.Targets[found]),
                               remote, FALSE)

NodePolicyTargetUpdate ==
    /\ Ready("node_policy_target")
    /\ state # NoState
    /\ \E data \in NodePolicyTargetPlans(state) :
        LET target == NodePolicyTargetToProto(data, client.TeamId)
        IN IF HasError(target.diags)
           THEN Finish("Update", data, <<>>, target.diags, FALSE, state, remote, FALSE)
           ELSE \E res \in Failures \cup
                           [err : {NoErr}, Target : {Nil} \cup NodePolicyTargetMessages] :
                LET req == [Target |-> target.msg]
                IN IF res.err # NoErr
                   THEN Finish("Update", data,
                               <<Rpc("UpdateNodePolicyTarget", req, res.err, Nil)>>,
                               <<RpcErrorDiag("update node policy target", res.err)>>,
                               FALSE, state, remote, FALSE)
                   ELSE LET rpcs == <<Rpc("UpdateNodePolicyTarget", req, NoErr, res)>>
                        IN IF res.Target = Nil
                           THEN Finish("Update", data, rpcs,
                                       <<NotDiag("Node policy target not updated")>>,
                                       FALSE, state, remote, FALSE)
                           ELSE Finish("Update", data, rpcs, <<>>, TRUE,
                                       NodePolicyTargetFromProto(data, res.Target),
                                       remote, FALSE)

\* no-op delete: a warning is logged and no request is made
NodePolicyTargetDelete ==
    /\ Ready("node_policy_target")
    /\ state # NoState
    /\ Finish("Delete", Nil, <<>>, <<>>, FALSE, AfterDelete(<<>>), remote, FALSE)

NodePolicyTargetImportState ==
    /\ Ready("node_policy_target")
    /\ state = NoState
    /\ \E id \in Ids :
        Finish("Import", Nil, <<>>, <<>>, TRUE,
               [present |-> TRUE, id |-> id, name |-> Null, cluster_ids |-> ListNull,
                policy_id |-> Null, description |-> Null, enabled |-> BoolNull],
               remote, FALSE)

----------------------------------------------------------------------------
(* workload_policy_target.go: the label selector, shared with node_policy.go *)

\* the operators both switches of the label selector know
OperatorTable ==
    <<<<"In", "LABEL_SELECTOR_OPERATOR_IN">>,
      <<"NotIn", "LABEL_SELECTOR_OPERATOR_NOT_IN">>,
      <<"Exists", "LABEL_SELECTOR_OPERATOR_EXISTS">>,
      <<"DoesNotExist", "LABEL_SELECTOR_OPERATOR_DOES_NOT_EXIST">>,
      <<"Gt", "LABEL_SELECTOR_OPERATOR_GT">>,
      <<"Lt", "LABEL_SELECTOR_OPERATOR_LT">>>>

OperatorFromStringFourOperators(operatorStr) ==
    IF \E i \in 1..4 : OperatorTable[i][1] = operatorStr
    THEN OperatorTable[CHOOSE i \in 1..4 : OperatorTable[i][1] = operatorStr][2]
    ELSE "LABEL_SELECTOR_OPERATOR_UNSPECIFIED"

\* LabelSelector.toProto's switch: the zero operator when no case matches
OperatorFromString(operatorStr) ==
    IF \E i \in 1..Len(OperatorTable) : OperatorTable[i][1] = operatorStr
    THEN OperatorTable[CHOOSE i \in 1..Len(OperatorTable) :
                           OperatorTable[i][1] = operatorStr][2]
    ELSE "LABEL_SELECTOR_OPERATOR_UNSPECIFIED"

\* LabelSelector.fromProto's switch: the empty string when no case matches
OperatorToString(operator) ==
    IF \E i \in 1..Len(OperatorTable) : OperatorTable[i][2] = operator
    THEN OperatorTable[CHOOSE i \in 1..Len(OperatorTable) :
                           OperatorTable[i][2] = operator][1]
    ELSE ""

\* one match expression of LabelSelector.toProto's loop
MatchExpressionToProto(attrs) ==
    LET values == IF attrs.values.null THEN [elements |-> <<>>, err |-> <<>>]
                  ELSE getStringList(attrs.values.elems)
    IN [msg |-> [Key |-> ValueString(attrs.key),
                 Operator |-> OperatorFromString(ValueString(attrs.operator)),
                 Values |-> values.elements],
        err |-> values.err]

\* LabelSelector.toProto: the message and the error; the first failing
\* conversion ends it
LabelSelectorToProto(l) ==
    IF l = Nil THEN [msg |-> Nil, err |-> <<>>]
    ELSE LET matchLabels == getStringMap(l.match_labels.elems)
             exprs == [i \in 1..Len(l.match_expressions.elems) |->
                          MatchExpressionToProto(l.match_expressions.elems[i])]
             failed == {i \in 1..Len(exprs) : Len(exprs[i].err) > 0}
         IN IF Len(matchLabels.err) > 0 THEN [msg |-> Nil, err |-> matchLabels.err]
            ELSE IF failed # {}
                 THEN [msg |-> Nil,
                       err |-> exprs[CHOOSE i \in failed : \A j \in failed : i <= j].err]
                 ELSE [msg |-> [nil |-> FALSE, MatchLabels |-> matchLabels.elements,
                                MatchExpressions |->
                                    [i \in 1..Len(exprs) |-> exprs[i].msg]],
                       err |-> <<>>]

\* LabelSelector.fromProto, as seen by the caller that holds the pointer m: a
\* nil selector and a nil receiver both leave the caller's block as it was
LabelSelectorFromProto(m, selector) ==
    IF selector = Nil \/ m = Nil THEN m
    ELSE LET matchExpressions ==
                 [i \in 1..Len(selector.MatchExpressions) |->
                     [key |-> selector.MatchExpressions[i].Key,
                      operator |-> OperatorToString(selector.MatchExpressions[i].Operator),
                      values |-> ListValue(fromStringList(
                                     selector.MatchExpressions[i].Values))]]
         IN [nil |-> FALSE,
             match_labels |-> IF selector.MatchLabels = Nil
                                 \/ DOMAIN selector.MatchLabels = {} THEN MapNull
                              ELSE MapValue(fromStringMap(selector.MatchLabels)),
             match_expressions |-> IF Len(matchExpressions) = 0 THEN ListNull
                                   ELSE ListValue(matchExpressions)]

----------------------------------------------------------------------------
(* node_policy.go; `zones' stands for the ten selector blocks, `zones_tip' for
   the tooltips, and the aws, azure and raw blocks are left out *)

\* a types.Int32: null, or known with a value; ValueInt32() is 0 for null
Int32Null == [null |-> TRUE]
Int32Value(n) == [null |-> FALSE, int |-> n]
ValueInt32(v) == IF v.null THEN 0 ELSE v.int

stringPointerValue(val) == IF val = NilString THEN Null ELSE val

stringValue(val) == IF val = "" THEN Null ELSE val

labelSelectorOperatorToString(op) ==
    IF \E i \in 1..Len(OperatorTable) : OperatorTable[i][2] = op
    THEN OperatorTable[CHOOSE i \in 1..Len(OperatorTable) : OperatorTable[i][2] = op][1]
    ELSE ""

\* a nil map of a message is Nil; a map made by make() is a function
labelSelectorFromProto(selector) ==
    LET exprs == [i \in 1..Len(selector.MatchExpressions) |->
                     [key |-> selector.MatchExpressions[i].Key,
                      operator |-> labelSelectorOperatorToString(
                                       selector.MatchExpressions[i].Operator),
                      values |-> ListValue(fromStringList(
                                     selector.MatchExpressions[i].Values))]]
    IN [nil |-> FALSE,
        match_labels |-> IF selector.MatchLabels = Nil THEN MapNull
                         ELSE MapValue(fromStringMap(selector.MatchLabels)),
        match_expressions |-> IF Len(exprs) > 0 THEN ListValue(exprs) ELSE ListNull]

disruptionPolicyFromProto(disruption) ==
    LET budgets == [i \in 1..Len(disruption.Budgets) |->
                       [reasons |-> ListValue(fromStringList(disruption.Budgets[i].Reasons)),
                        nodes |-> stringValue(disruption.Budgets[i].Nodes),
                        schedule |-> stringValue(disruption.Budgets[i].Schedule),
                        duration |-> stringValue(disruption.Budgets[i].Duration)]]
    IN [nil |-> FALSE,
        consolidate_after |-> disruption.ConsolidateAfter,
        consolidation_policy |-> disruption.ConsolidationPolicy,
        expire_after |-> disruption.ExpireAfter,
        ttl_seconds_after_empty |-> Int32Value(disruption.TtlSecondsAfterEmpty),
        termination_grace_period_seconds |->
            Int32Value(disruption.TerminationGracePeriodSeconds),
        budgets |-> IF Len(budgets) > 0 THEN ListValue(budgets) ELSE ListNull]

\* one budget of DisruptionPolicy.toProto's loop
DisruptionBudgetToProto(attrs) ==
    LET reasons == IF attrs.reasons.null THEN [elements |-> <<>>, err |-> <<>>]
                   ELSE getStringList(attrs.reasons.elems)
    IN [msg |-> [Reasons |-> reasons.elements,
                 Nodes |-> IF attrs.nodes = Null THEN "" ELSE ValueString(attrs.nodes),
                 Schedule |-> IF attrs.schedule = Null THEN ""
                              ELSE ValueString(attrs.schedule),
                 Duration |-> IF attrs.duration = Null THEN ""
                              ELSE ValueString(attrs.duration)],
        err |-> reasons.err]

\* DisruptionPolicy.toProto: nil and an error diagnostic at the first budget
\* whose reasons do not convert
DisruptionPolicyToProto(dp) ==
    LET budgets == [i \in 1..Len(dp.budgets.elems) |->
                       DisruptionBudgetToProto(dp.budgets.elems[i])]
        failed == {i \in 1..Len(budgets) : Len(budgets[i].err) > 0}
    IN IF failed # {}
       THEN [msg |-> Nil,
             diags |-> <<ConversionDiag("Conversion Error", "budget reasons",
                             budgets[CHOOSE i \in failed : \A j \in failed : i <= j].err)>>]
       ELSE [msg |-> [nil |-> FALSE,
                      ConsolidateAfter |-> ValueString(dp.consolidate_after),
                      ConsolidationPolicy |-> ValueString(dp.consolidation_policy),
                      ExpireAfter |-> ValueString(dp.expire_after),
                      TtlSecondsAfterEmpty |-> ValueInt32(dp.ttl_seconds_after_empty),
                      TerminationGracePeriodSeconds |->
                          ValueInt32(dp.termination_grace_period_seconds),
                      Budgets |-> [i \in 1..Len(budgets) |-> budgets[i].msg]],
             diags |-> <<>>]

\* getElementList with a struct for V (Taint): Value.As fills strings, numbers,
\* booleans, maps and slices of values and fails for any other target, so every
\* element is an error and only an empty list converts, to a nil slice
getTaintList(values) ==
    [elements |-> <<>>,
     err |-> [i \in 1..Len(values) |->
                 "can't unmarshal into *provider.Taint, needs FromTerraform5Value method"]]

ZoneElems == {"us-east-1a", Unknown}
ZoneSelector(values) ==
    [nil |-> FALSE, match_labels |-> MapNull,
     match_expressions |->
         ListValue(<<[key |-> "topology.kubernetes.io/zone", operator |-> "In",
                      values |-> ListValue(values)]>>)]
WireZoneSelector(values) ==
    [nil |-> FALSE, MatchLabels |-> Nil,
     MatchExpressions |-> <<[Key |-> "topology.kubernetes.io/zone",
                             Operator |-> "LABEL_SELECTOR_OPERATOR_IN",
                             Values |-> values]>>]
NoSelector == Nil
WireZones == {NoSelector, WireZoneSelector(<<>>), WireZoneSelector(<<"us-east-1a">>)}

NodePolicyMessages ==
    [nil : {FALSE}, Id : Ids, Name : Names, Description : {""}, Weight : {10},
     Zones : WireZones, ZonesTip : {NilString}, Labels : {Nil}, Taints : {<<>>},
     Disruption : {Nil}, Limits : {Nil}, NodePoolName : {"pool"},
     NodeClassName : {"class"}]

NodePolicyPlans(st) ==
    [id : {PlannedId(st)}, name : Names, description : {""}, weight : {Int32Value(10)},
     zones : {Nil} \cup {ZoneSelector(e) : e \in SeqsUpTo(ZoneElems, MaxLen)},
     zones_tip : {Null}, labels : {MapNull}, taints : {ListNull}, disruption : {Nil},
     limits : {Nil}, node_pool_name : {"pool"}, node_class_name : {"class"}]

NodePolicyToProto(m, teamId) ==
    LET zones == LabelSelectorToProto(m.zones)
        labels == IF m.labels.null THEN [elements |-> Nil, err |-> <<>>]
                  ELSE getStringMap(m.labels.elems)
        taints == getTaintList(m.taints.elems)
        disruption == IF m.disruption = Nil THEN [msg |-> Nil, diags |-> <<>>]
                      ELSE DisruptionPolicyToProto(m.disruption)
    IN IF Len(zones.err) > 0
       THEN [msg |-> Nil,
             diags |-> <<ConversionDiag("Conversion Error", "zones", zones.err)>>]
       ELSE IF Len(labels.err) > 0
       THEN [msg |-> Nil,
             diags |-> <<ConversionDiag("Conversion Error", "labels", labels.err)>>]
       ELSE IF ~m.taints.null /\ Len(taints.err) > 0
       THEN [msg |-> Nil,
             diags |-> <<ConversionDiag("Conversion Error", "taints", taints.err)>>]
       ELSE [msg |-> [nil |-> FALSE, Id |-> ValueString(m.id),
                      Name |-> ValueString(m.name),
                      Description |-> ValueString(m.description),
                      TeamId |-> teamId,
                      Weight |-> ValueInt32(m.weight),
                      Zones |-> zones.msg,
                      ZonesTip |-> IF m.zones_tip = Null THEN NilString
                                   ELSE ValueString(m.zones_tip),
                      Labels |-> labels.elements,
                      Taints |-> <<>>,
                      Disruption |-> disruption.msg,
                      Limits |-> IF m.limits = Nil THEN Nil
                                 ELSE [nil |-> FALSE, Cpu |-> ValueString(m.limits.cpu),
                                       Memory |-> ValueString(m.limits.memory)],
                      NodePoolName |-> ValueString(m.node_pool_name),
                      NodeClassName |-> ValueString(m.node_class_name)],
             diags |-> disruption.diags]

NodePolicyFromProto(m, policy) ==
    [present |-> TRUE, id |-> policy.Id, name |-> policy.Name,
     description |-> policy.Description,
     weight |-> Int32Value(policy.Weight),
     zones |-> IF policy.Zones = Nil THEN m.zones
               ELSE labelSelectorFromProto(policy.Zones),
     zones_tip |-> stringPointerValue(policy.ZonesTip),
     labels |-> IF policy.Labels = Nil THEN MapNull
                ELSE MapValue(fromStringMap(policy.Labels)),
     taints |-> IF Len(policy.Taints) > 0
                THEN ListValue([i \in 1..Len(policy.Taints) |->
                                   [key |-> policy.Taints[i].Key,
                                    value |-> policy.Taints[i].Value,
                                    effect |-> policy.Taints[i].Effect]])
                ELSE ListNull,
     disruption |-> IF policy.Disruption = Nil THEN m.disruption
                    ELSE disruptionPolicyFromProto(policy.Disruption),
     limits |-> IF policy.Limits = Nil THEN m.limits
                ELSE [nil |-> FALSE, cpu |-> policy.Limits.Cpu,
                      memory |-> policy.Limits.Memory],
     node_pool_name |-> policy.NodePoolName,
     node_class_name |-> policy.NodeClassName]

NodePolicyCreate ==
    /\ Ready("node_policy")
    /\ state = NoState
    /\ \E data \in NodePolicyPlans(state) :
        LET policy == NodePolicyToProto(data, client.TeamId)
        IN IF HasError(policy.diags)
           THEN Finish("Create", data, <<>>, policy.diags, FALSE, state, remote, FALSE)
           ELSE \E res \in Failures \cup
                           [err : {NoErr},
                            Policies : {<<>>} \cup {<<q>> : q \in NodePolicyMessages}] :
                LET req == [TeamId |-> client.TeamId, Policies |-> <<policy.msg>>]
                IN IF res.err # NoErr
                   THEN Finish("Create", data,
                               <<Rpc("CreateNodePolicies", req, res.err, Nil)>>,
                               <<RpcErrorDiag("create node policy", res.err)>>,
                               FALSE, state, remote, FALSE)
                   ELSE LET rpcs == <<Rpc("CreateNodePolicies", req, NoErr, res)>>
                        IN IF Len(res.Policies) = 0
                           THEN Finish("Create", data, rpcs,
                                       <<NotDiag("Node policy not created")>>,
                                       FALSE, state, remote, FALSE)
                           ELSE Finish("Create", data, rpcs, <<>>, TRUE,
                                       NodePolicyFromProto(data, res.Policies[1]),
                                       remote \cup {res.Policies[1].Id}, FALSE)

NodePolicyRead ==
    /\ Ready("node_policy")
    /\ state # NoState
    /\ \E res \in Failures \cup
                  {[err |-> NoErr,
                    Policies |-> [i \in 1..Len(ListedIds) |->
                                    [q EXCEPT !.Id = ListedIds[i]]]] :
                       q \in {p \in NodePolicyMessages : p.Id = IdNames[1]}} :
        LET data == state
            req == [TeamId |-> client.TeamId]
        IN IF res.err # NoErr
           THEN Finish("Read", Nil, <<Rpc("ListNodePolicies", req, res.err, Nil)>>,
                       <<RpcErrorDiag("list node policies", res.err)>>,
                       FALSE, state, remote, FALSE)
           ELSE LET rpcs == <<Rpc("ListNodePolicies", req, NoErr, res)>>
                    found == FirstMatch([i \in 1..Len(res.Policies) |-> res.Policies[i].Id],
                                        ValueString(data.id))
                IN IF found = 0
                   THEN Finish("Read", Nil, rpcs, <<NotDiag("Node policy not found")>>,
                               FALSE, state, remote, FALSE)
                   ELSE Finish("Read", Nil, rpcs, <<>>, TRUE,
                               NodePolicyFromProto(data, res.Policies[found]),
                               remote, FALSE)

NodePolicyUpdate ==
    /\ Ready("node_policy")
    /\ state # NoState
    /\ \E data \in NodePolicyPlans(state) :
        LET policy == NodePolicyToProto(data, client.TeamId)
        IN IF HasError(policy.diags)
           THEN Finish("Update", data, <<>>, policy.diags, FALSE, state, remote, FALSE)
           ELSE \E res \in Failures \cup
                           [err : {NoErr}, Policy : {Nil} \cup NodePolicyMessages] :
                LET req == [TeamId |-> client.TeamId, Policy |-> policy.msg]
                IN IF res.err # NoErr
                   THEN Finish("Update", data,
                               <<Rpc("UpdateNodePolicy", req, res.err, Nil)>>,
                               <<RpcErrorDiag("update node policy", res.err)>>,
                               FALSE, state, remote, FALSE)
                   ELSE LET rpcs == <<Rpc("UpdateNodePolicy", req, NoErr, res)>>
                        IN IF res.Policy = Nil
                           THEN Finish("Update", data, rpcs,
                                       <<NotDiag("Node policy not updated")>>,
                                       FALSE, state, remote, FALSE)
                           ELSE Finish("Update", data, rpcs, <<>>, TRUE,
                                       NodePolicyFromProto(data, res.Policy),
                                       remote, FALSE)

NodePolicyDeleteRemotely ==
    /\ Ready("node_policy")
    /\ state # NoState
    /\ Finish("Delete", Nil, <<>>, <<>>, FALSE, AfterDelete(<<>>),
              remote \ {ValueString(state.id)}, FALSE)

\* no-op delete: a warning is logged and no request is made
NodePolicyDelete ==
    /\ Ready("node_policy")
    /\ state # NoState
    /\ Finish("Delete", Nil, <<>>, <<>>, FALSE, AfterDelete(<<>>), remote, FALSE)

NodePolicyImportState ==
    /\ Ready("node_policy")
    /\ state = NoState
    /\ \E id \in Ids :
        Finish("Import", Nil, <<>>, <<>>, TRUE,
               [present |-> TRUE, id |-> id, name |-> Null, description |-> Null,
                weight |-> Int32Null, zones |-> Nil, zones_tip |-> Null,
                labels |-> MapNull, taints |-> ListNull, disruption |-> Nil,
                limits |-> Nil, node_pool_name |-> Null, node_class_name |-> Null],
               remote, FALSE)

----------------------------------------------------------------------------
(* workload_policy.go *)

\* String.ValueStringPointer(): nil for a null value
ValueStringPointer(s) == IF s = Null THEN NilString ELSE ValueString(s)

ActionTriggerConverter(value) ==
    CASE value = "on_schedule" -> [ok |-> TRUE, val |-> "ACTION_TRIGGER_ON_SCHEDULE"]
      [] value = "on_detection" -> [ok |-> TRUE, val |-> "ACTION_TRIGGER_ON_DETECTION"]
      [] OTHER -> [ok |-> FALSE, err |-> "invalid action trigger: " \o value]

\* the switch of fromProto: no case for any other value, which leaves the
\* zero types.String (null)
ActionTriggerToString(actionTrigger) ==
    CASE actionTrigger = "ACTION_TRIGGER_ON_SCHEDULE" -> "on_schedule"
      [] actionTrigger = "ACTION_TRIGGER_ON_DETECTION" -> "on_detection"
      [] OTHER -> Null

DetectionTriggerConverter(value) ==
    CASE value = "pod_creation" -> [ok |-> TRUE, val |-> "DETECTION_TRIGGER_POD_CREATION"]
      [] value = "pod_update" -> [ok |-> TRUE, val |-> "DETECTION_TRIGGER_POD_UPDATE"]
      [] OTHER -> [ok |-> FALSE, err |-> "invalid detection trigger: " \o value]

\* the second switch of fromProto, without a default either
DetectionTriggerToString(detectionTrigger) ==
    CASE detectionTrigger = "DETECTION_TRIGGER_POD_CREATION" -> "pod_creation"
      [] detectionTrigger = "DETECTION_TRIGGER_POD_UPDATE" -> "pod_update"
      [] OTHER -> Null

\* the third switch of fromProto, without a default either
RecommendationModeToString(mode) ==
    CASE mode = "RECOMMENDATION_MODE_BALANCED" -> "balanced"
      [] mode = "RECOMMENDATION_MODE_AGGRESSIVE" -> "aggressive"
      [] mode = "RECOMMENDATION_MODE_CONSERVATIVE" -> "conservative"
      [] OTHER -> Null

\* a *int32, *int64 or *float32 of a message: nil or a value
Pointer(n) == [nil |-> FALSE, val |-> n]

\* ValueInt64Pointer(), ValueInt32Pointer(): nil for a null value
ValueIntPointer(v) == IF v.null THEN Nil ELSE Pointer(v.int)

\* the value an optional number of a message leaves in a field holding `old`
FromIntPointer(old, ptr) == IF ptr = Nil THEN old ELSE Int32Value(ptr.val)

VerticalScalingOptionsToProto(o) ==
    IF o = Nil THEN Nil
    ELSE [nil |-> FALSE, Enabled |-> ValueBool(o.enabled),
          MinRequest |-> ValueIntPointer(o.min_request)]

\* VerticalScalingOptions.fromProto, as seen by the caller that holds the
\* pointer o: a nil target and a nil receiver both leave the caller's block
VerticalScalingOptionsFromProto(o, target) ==
    IF target = Nil \/ o = Nil THEN o
    ELSE [nil |-> FALSE, enabled |-> BoolValue(target.Enabled),
          min_request |-> FromIntPointer(o.min_request, target.MinRequest)]

HPAMetricTable ==
    <<<<"cpu", "HPA_METRIC_TYPE_CPU">>, <<"memory", "HPA_METRIC_TYPE_MEMORY">>,
      <<"gpu", "HPA_METRIC_TYPE_GPU">>, <<"network", "HPA_METRIC_TYPE_NETWORK">>>>

toHPAMetricThreeMetrics(primaryMetric) ==
    IF \E i \in 1..3 : HPAMetricTable[i][1] = ValueString(primaryMetric)
    THEN HPAMetricTable[CHOOSE i \in 1..3 :
                            HPAMetricTable[i][1] = ValueString(primaryMetric)][2]
    ELSE NilString

\* toHPAMetric: a nil pointer when no case matches
toHPAMetric(primaryMetric) ==
    IF \E i \in 1..Len(HPAMetricTable) : HPAMetricTable[i][1] = ValueString(primaryMetric)
    THEN HPAMetricTable[CHOOSE i \in 1..Len(HPAMetricTable) :
                            HPAMetricTable[i][1] = ValueString(primaryMetric)][2]
    ELSE NilString

fromHPAMetric(metric) ==
    IF \E i \in 1..Len(HPAMetricTable) : HPAMetricTable[i][2] = metric
    THEN HPAMetricTable[CHOOSE i \in 1..Len(HPAMetricTable) :
                            HPAMetricTable[i][2] = metric][1]
    ELSE ""

\* the generated getter: the zero metric for a nil pointer
GetPrimaryMetric(target) ==
    IF target.PrimaryMetric = NilString THEN "HPA_METRIC_TYPE_UNSPECIFIED"
    ELSE target.PrimaryMetric

HorizontalScalingOptionsToProto(o) ==
    IF o = Nil THEN Nil
    ELSE [nil |-> FALSE, Enabled |-> ValueBool(o.enabled),
          MinReplicas |-> ValueIntPointer(o.min_replicas),
          PrimaryMetric |-> toHPAMetric(o.primary_metric)]

\* HorizontalScalingOptions.fromProto, as seen by the caller that holds the
\* pointer o; primary_metric is assigned whether or not the message holds one
HorizontalScalingOptionsFromProto(o, target) ==
    IF target = Nil \/ o = Nil THEN o
    ELSE [nil |-> FALSE, enabled |-> BoolValue(target.Enabled),
          min_replicas |-> FromIntPointer(o.min_replicas, target.MinReplicas),
          primary_metric |-> fromHPAMetric(GetPrimaryMetric(target))]

ActionTriggerElems == {"on_schedule", "sometimes"}
WireActionTriggers == {<<>>, <<"ACTION_TRIGGER_ON_SCHEDULE">>}

WorkloadPolicyMessages ==
    [nil : {FALSE}, PolicyId : Ids, Name : {"alpha"},
     ActionTriggers : WireActionTriggers,
     CronSchedule : {NilString, "*/15 * * * *"},
     DetectionTriggers : {<<"DETECTION_TRIGGER_POD_CREATION">>},
     CpuVerticalScaling : {Nil}, HorizontalScaling : {Nil},
     SchedulerPlugins : {<<"dz-scheduler">>},
     DefragmentationSchedule : {NilString, "0 3 * * *"}]

\* action_triggers is required and validated to hold at least one element
WorkloadPolicyPlans(st) ==
    [id : {PlannedId(st)}, name : Names,
     action_triggers : {ListValue(e) : e \in SeqsUpTo(ActionTriggerElems, MaxLen) \ {<<>>}},
     cron_schedule : {"*/15 * * * *"},
     detection_triggers : {ListValue(<<"pod_creation">>)},
     cpu_vertical_scaling : {Nil}, horizontal_scaling : {Nil},
     scheduler_plugins : {ListValue(<<"dz-scheduler">>)},
     defragmentation_schedule : {"*/15 * * * *"}]

WorkloadPolicyToProto(m, teamId) ==
    LET values == m.action_triggers.elems
        actionTriggers ==
            getElementList(values, [value \in ElementValues(values) |->
                                       ActionTriggerConverter(value)])
        detections == m.detection_triggers.elems
        detectionTriggers ==
            getElementList(detections, [value \in ElementValues(detections) |->
                                           DetectionTriggerConverter(value)])
        schedulerPlugins == getStringList(m.scheduler_plugins.elems)
    IN IF Len(actionTriggers.err) > 0
       THEN [msg |-> Nil,
             diags |-> <<ConversionDiag("Client Error", "action triggers to Terraform value",
                                        actionTriggers.err)>>]
       ELSE IF Len(detectionTriggers.err) > 0
       THEN [msg |-> Nil,
             diags |-> <<ConversionDiag("Client Error",
                                        "detection triggers to Terraform value",
                                        detectionTriggers.err)>>]
       ELSE IF Len(schedulerPlugins.err) > 0
       THEN [msg |-> Nil,
             diags |-> <<ConversionDiag("Client Error",
                                        "scheduler plugins to Terraform value",
                                        schedulerPlugins.err)>>]
       ELSE [msg |-> [nil |-> FALSE, PolicyId |-> ValueString(m.id), TeamId |-> teamId,
                      Name |-> ValueString(m.name),
                      ActionTriggers |-> actionTriggers.elements,
                      CronSchedule |-> ValueStringPointer(m.cron_schedule),
                      DetectionTriggers |-> detectionTriggers.elements,
                      CpuVerticalScaling |->
                          VerticalScalingOptionsToProto(m.cpu_vertical_scaling),
                      HorizontalScaling |->
                          HorizontalScalingOptionsToProto(m.horizontal_scaling),
                      SchedulerPlugins |-> schedulerPlugins.elements,
                      DefragmentationSchedule |->
                          ValueStringPointer(m.defragmentation_schedule)],
             diags |-> <<>>]

\* fromProto dereferences both schedule pointers
WorkloadPolicyFromProtoPanics(policy) ==
    policy.CronSchedule = NilString \/ policy.DefragmentationSchedule = NilString

WorkloadPolicyFromProto(m, policy) ==
    [present |-> TRUE, id |-> policy.PolicyId, name |-> policy.Name,
     action_triggers |->
        ListValue([i \in 1..Len(policy.ActionTriggers) |->
                      ActionTriggerToString(policy.ActionTriggers[i])]),
     cron_schedule |-> policy.CronSchedule,
     detection_triggers |->
        ListValue([i \in 1..Len(policy.DetectionTriggers) |->
                      DetectionTriggerToString(policy.DetectionTriggers[i])]),
     cpu_vertical_scaling |->
        VerticalScalingOptionsFromProto(m.cpu_vertical_scaling, policy.CpuVerticalScaling),
     horizontal_scaling |->
        HorizontalScalingOptionsFromProto(m.horizontal_scaling, policy.HorizontalScaling),
     scheduler_plugins |-> ListValue(fromStringList(policy.SchedulerPlugins)),
     defragmentation_schedule |-> policy.DefragmentationSchedule]

WorkloadPolicyResults == Failures \cup [err : {NoErr}, Policy : {Nil} \cup WorkloadPolicyMessages]

\* Create and Update share their shape: toProto, the RPC whatever toProto
\* reported, the nil check, fromProto, State.Set
WorkloadPolicyApply(op, rpc, what, notDone, data, res, creates) ==
    LET created == IF creates /\ res.err = NoErr /\ res.Policy # Nil
                   THEN {res.Policy.PolicyId} ELSE {}
        policy == WorkloadPolicyToProto(data, client.TeamId)
        req == [TeamId |-> client.TeamId, Policy |-> policy.msg]
    IN IF res.err # NoErr
       THEN Finish(op, data, <<Rpc(rpc, req, res.err, Nil)>>,
                   policy.diags \o <<RpcErrorDiag(what, res.err)>>,
                   FALSE, state, remote, FALSE)
       ELSE LET rpcs == <<Rpc(rpc, req, NoErr, res)>>
            IN IF res.Policy = Nil
               THEN Finish(op, data, rpcs, policy.diags \o <<NotDiag(notDone)>>,
                           FALSE, state, remote, FALSE)
               ELSE IF WorkloadPolicyFromProtoPanics(res.Policy)
                    THEN Finish(op, data, rpcs, policy.diags, FALSE, state,
                                remote \cup created, TRUE)
                    ELSE Finish(op, data, rpcs, policy.diags, TRUE,
                                WorkloadPolicyFromProto(data, res.Policy),
                                remote \cup created, FALSE)

WorkloadPolicyCreate ==
    /\ Ready("workload_policy")
    /\ state = NoState
    /\ \E data \in WorkloadPolicyPlans(state), res \in WorkloadPolicyResults :
        WorkloadPolicyApply("Create", "CreateWorkloadRecommendationPolicy",
                            "create workload policy", "Workload policy not created",
                            data, res, TRUE)

WorkloadPolicyRead ==
    /\ Ready("workload_policy")
    /\ state # NoState
    /\ \E res \in WorkloadPolicyResults :
        LET data == state
            req == [TeamId |-> client.TeamId, PolicyId |-> ValueString(data.id)]
        IN IF res.err # NoErr
           THEN Finish("Read", Nil,
                       <<Rpc("GetWorkloadRecommendationPolicy", req, res.err, Nil)>>,
                       <<RpcErrorDiag("get workload policy", res.err)>>,
                       FALSE, state, remote, FALSE)
           ELSE LET rpcs == <<Rpc("GetWorkloadRecommendationPolicy", req, NoErr, res)>>
                IN IF res.Policy = Nil
                   THEN Finish("Read", Nil, rpcs, <<NotDiag("Workload policy not found")>>,
                               FALSE, state, remote, FALSE)
                   ELSE IF WorkloadPolicyFromProtoPanics(res.Policy)
                        THEN Finish("Read", Nil, rpcs, <<>>, FALSE, state, remote, TRUE)
                        ELSE Finish("Read", Nil, rpcs, <<>>, TRUE,
                                    WorkloadPolicyFromProto(data, res.Policy),
                                    remote, FALSE)

WorkloadPolicyUpdate ==
    /\ Ready("workload_policy")
    /\ state # NoState
    /\ \E data \in WorkloadPolicyPlans(state), res \in WorkloadPolicyResults :
        WorkloadPolicyApply("Update", "UpdateWorkloadRecommendationPolicy",
                            "update workload policy", "Workload policy not updated",
                            data, res, FALSE)

WorkloadPolicyDeleteRetrying ==
    /\ Ready("workload_policy")
    /\ state # NoState
    /\ \E res \in DeleteResults, again \in DeleteResults :
        LET data == state
            req == [TeamId |-> client.TeamId, PolicyId |-> ValueString(data.id)]
            sent == Rpc("DeleteWorkloadRecommendationPolicy", req, res.err, Nil)
            resent == Rpc("DeleteWorkloadRecommendationPolicy", req, again.err, Nil)
            rpcs == IF res.err # NoErr THEN <<sent, resent>> ELSE <<sent>>
            err == IF res.err # NoErr THEN again.err ELSE NoErr
            diags == IF err # NoErr
                     THEN <<RpcErrorDiag("delete workload policy", err)>> ELSE <<>>
        IN Finish("Delete", Nil, rpcs, diags, FALSE, AfterDelete(diags),
                  IF err # NoErr THEN remote ELSE remote \ {ValueString(data.id)},
                  FALSE)

WorkloadPolicyDelete ==
    /\ Ready("workload_policy")
    /\ state # NoState
    /\ \E res \in DeleteResults :
        LET data == state
            req == [TeamId |-> client.TeamId, PolicyId |-> ValueString(data.id)]
            diags == IF res.err # NoErr
                     THEN <<RpcErrorDiag("delete workload policy", res.err)>> ELSE <<>>
        IN Finish("Delete", Nil,
                  <<Rpc("DeleteWorkloadRecommendationPolicy", req, res.err, Nil)>>,
                  diags, FALSE, AfterDelete(diags),
                  IF res.err # NoErr THEN remote ELSE remote \ {ValueString(data.id)},
                  FALSE)

WorkloadPolicyImportState ==
    /\ Ready("workload_policy")
    /\ state = NoState
    /\ \E id \in Ids :
        Finish("Import", Nil, <<>>, <<>>, TRUE,
               [present |-> TRUE, id |-> id, name |-> Null,
                action_triggers |-> ListNull, cron_schedule |-> Null,
                detection_triggers |-> ListNull, cpu_vertical_scaling |-> Nil,
                horizontal_scaling |-> Nil, scheduler_plugins |-> ListNull,
                defragmentation_schedule |-> Null],
               remote, FALSE)

----------------------------------------------------------------------------
(* workload_policy_target.go *)

KindTable ==
    <<<<"Pod", "K8S_OBJECT_KIND_POD">>,
      <<"Job", "K8S_OBJECT_KIND_JOB">>,
      <<"Deployment", "K8S_OBJECT_KIND_DEPLOYMENT">>,
      <<"StatefulSet", "K8S_OBJECT_KIND_STATEFUL_SET">>,
      <<"DaemonSet", "K8S_OBJECT_KIND_DAEMON_SET">>,
      <<"ReplicaSet", "K8S_OBJECT_KIND_REPLICA_SET">>,
      <<"CronJob", "K8S_OBJECT_KIND_CRON_JOB">>,
      <<"ReplicationController", "K8S_OBJECT_KIND_REPLICATION_CONTROLLER">>,
      <<"Rollout", "K8S_OBJECT_KIND_ARGO_ROLLOUT">>>>

KindConverterAcceptingUnspecified(value) ==
    IF value = "Unspecified" THEN [ok |-> TRUE, val |-> "K8S_OBJECT_KIND_UNSPECIFIED"]
    ELSE IF \E i \in 1..Len(KindTable) : KindTable[i][1] = value
    THEN [ok |-> TRUE,
          val |-> KindTable[CHOOSE i \in 1..Len(KindTable) : KindTable[i][1] = value][2]]
    ELSE [ok |-> FALSE, err |-> "invalid kind: " \o value]

KindConverter(value) ==
    IF \E i \in 1..Len(KindTable) : KindTable[i][1] = value
    THEN [ok |-> TRUE,
          val |-> KindTable[CHOOSE i \in 1..Len(KindTable) : KindTable[i][1] = value][2]]
    ELSE [ok |-> FALSE, err |-> "invalid kind: " \o value]

getKindFilters(values) ==
    getElementList(values, [value \in ElementValues(values) |-> KindConverter(value)])

\* the name of a wire kind; <<>> for a kind the switch has no case for
KindToStrings(k) ==
    IF \E i \in 1..Len(KindTable) : KindTable[i][2] = k
    THEN <<KindTable[CHOOSE i \in 1..Len(KindTable) : KindTable[i][2] = k][1]>>
    ELSE IF k = "K8S_OBJECT_KIND_UNSPECIFIED" THEN <<"Unspecified">> ELSE <<>>

RECURSIVE fromKindFilter(_)
fromKindFilter(kinds) ==
    IF kinds = <<>> THEN <<>>
    ELSE KindToStrings(Head(kinds)) \o fromKindFilter(Tail(kinds))

\* RegexPattern.toProto: nil for a nil block
RegexPatternToProto(r) ==
    IF r = Nil THEN Nil
    ELSE [nil |-> FALSE, Pattern |-> ValueString(r.pattern), Flags |-> ValueString(r.flags)]

\* RegexPattern.fromProto, as seen by the caller that holds the pointer r: the
\* method assigns nil or a fresh block to its own copy of the receiver, so the
\* caller's block changes only when both it and the wire pattern are present
RegexPatternFromProtoThroughPointer(r, pattern) ==
    IF pattern = Nil THEN Nil
    ELSE [nil |-> FALSE, pattern |-> pattern.Pattern, flags |-> pattern.Flags]

RegexPatternFromProto(r, pattern) ==
    IF pattern = Nil \/ r = Nil THEN r
    ELSE [nil |-> FALSE, pattern |-> pattern.Pattern, flags |-> pattern.Flags]

KindElems == {"Pod", "Gadget"}
WireKindFilters == {<<>>, <<"K8S_OBJECT_KIND_POD">>}
NamePatterns == {Nil, [nil |-> FALSE, pattern |-> "web-.*", flags |-> "i"]}
WireNamePatterns == {Nil, [nil |-> FALSE, Pattern |-> "api-.*", Flags |-> ""]}

WorkloadPolicyTargetMessages ==
    [nil : {FALSE}, TargetId : Ids, Name : Names, KindFilter : WireKindFilters,
     NamePattern : WireNamePatterns]

WorkloadPolicyTargetPlans(st) ==
    [id : {PlannedId(st)}, name : Names,
     kind_filter : {ListValue(e) : e \in SeqsUpTo(KindElems, MaxLen)},
     name_pattern : NamePatterns]

WorkloadPolicyTargetFromProto(m, target) ==
    [present |-> TRUE, id |-> target.TargetId, name |-> target.Name,
     kind_filter |-> ListValue(fromKindFilter(target.KindFilter)),
     name_pattern |-> RegexPatternFromProto(m.name_pattern, target.NamePattern)]

WorkloadPolicyTargetResults ==
    Failures \cup [err : {NoErr}, Target : {Nil} \cup WorkloadPolicyTargetMessages]

\* Create and Update share their shape: the conversions with a return on the
\* first failure, the RPC, the nil check, fromProto, State.Set
WorkloadPolicyTargetApply(op, rpc, what, notDone, data, req, creates) ==
    LET kindFilters == getKindFilters(data.kind_filter.elems)
    IN IF Len(kindFilters.err) > 0
       THEN Finish(op, data, <<>>,
                   <<ConversionDiag("Client Error", "kind filter to Terraform value",
                                    kindFilters.err)>>,
                   FALSE, state, remote, FALSE)
       ELSE \E res \in WorkloadPolicyTargetResults :
            LET request == [req EXCEPT !.KindFilter = kindFilters.elements]
            IN IF res.err # NoErr
               THEN Finish(op, data, <<Rpc(rpc, request, res.err, Nil)>>,
                           <<RpcErrorDiag(what, res.err)>>, FALSE, state, remote, FALSE)
               ELSE LET rpcs == <<Rpc(rpc, request, NoErr, res)>>
                    IN IF res.Target = Nil
                       THEN Finish(op, data, rpcs, <<NotDiag(notDone)>>,
                                   FALSE, state, remote, FALSE)
                       ELSE Finish(op, data, rpcs, <<>>, TRUE,
                                   WorkloadPolicyTargetFromProto(data, res.Target),
                                   remote \cup (IF creates THEN {res.Target.TargetId} ELSE {}), FALSE)

WorkloadPolicyTargetCreate ==
    /\ Ready("workload_policy_target")
    /\ state = NoState
    /\ \E data \in WorkloadPolicyTargetPlans(state) :
        WorkloadPolicyTargetApply("Create", "CreateWorkloadPolicyTarget",
            "create cluster", "Workload policy target not created", data,
            [TeamId |-> client.TeamId, Name |-> ValueString(data.name),
             KindFilter |-> <<>>, NamePattern |-> RegexPatternToProto(data.name_pattern)],
            TRUE)

WorkloadPolicyTargetRead ==
    /\ Ready("workload_policy_target")
    /\ state # NoState
    /\ \E res \in WorkloadPolicyTargetResults :
        LET data == state
            req == [TeamId |-> client.TeamId, TargetId |-> ValueString(data.id)]
        IN IF res.err # NoErr
           THEN Finish("Read", Nil, <<Rpc("GetWorkloadPolicyTarget", req, res.err, Nil)>>,
                       <<RpcErrorDiag("get cluster", res.err)>>,
                       FALSE, state, remote, FALSE)
           ELSE LET rpcs == <<Rpc("GetWorkloadPolicyTarget", req, NoErr, res)>>
                IN IF res.Target = Nil
                   THEN Finish("Read", Nil, rpcs,
                               <<NotDiag("Workload policy target not found")>>,
                               FALSE, state, remote, FALSE)
                   ELSE Finish("Read", Nil, rpcs, <<>>, TRUE,
                               WorkloadPolicyTargetFromProto(data, res.Target),
                               remote, FALSE)

WorkloadPolicyTargetUpdate ==
    /\ Ready("workload_policy_target")
    /\ state # NoState
    /\ \E data \in WorkloadPolicyTargetPlans(state) :
        WorkloadPolicyTargetApply("Update", "UpdateWorkloadPolicyTarget",
            "update cluster", "Cluster not updated", data,
            [TeamId |-> client.TeamId, TargetId |-> ValueString(data.id),
             Name |-> ValueString(data.name), KindFilter |-> <<>>,
             NamePattern |-> RegexPatternToProto(data.name_pattern)],
            FALSE)

WorkloadPolicyTargetDelete ==
    /\ Ready("workload_policy_target")
    /\ state # NoState
    /\ \E res \in DeleteResults :
        LET data == state
            req == [TeamId |-> client.TeamId, TargetIds |-> <<ValueString(data.id)>>]
            diags == IF res.err # NoErr
                     THEN <<RpcErrorDiag("delete cluster", res.err)>> ELSE <<>>
        IN Finish("Delete", Nil, <<Rpc("DeleteWorkloadPolicyTarget", req, res.err, Nil)>>,
                  diags, FALSE, AfterDelete(diags),
                  IF res.err # NoErr THEN remote ELSE remote \ {ValueString(data.id)},
                  FALSE)

WorkloadPolicyTargetImportState ==
    /\ Ready("workload_policy_target")
    /\ state = NoState
    /\ \E id \in Ids :
        Finish("Import", Nil, <<>>, <<>>, TRUE,
               [present |-> TRUE, id |-> id, name |-> Null, kind_filter |-> ListNull,
                name_pattern |-> Nil],
               remote, FALSE)

----------------------------------------------------------------------------
(* The backend outside the provider: records appear and disappear *)

OutOfBand ==
    /\ client # NoClient
    /\ \E id \in Ids :
        /\ remote' = IF id \in remote THEN remote \ {id} ELSE remote \cup {id}
        /\ last' = [op |-> "OutOfBand", id |-> id, plan |-> Nil, rpcs |-> <<>>,
                    diags |-> <<>>, wrote |-> FALSE, panicked |-> FALSE]
        /\ UNCHANGED <<kind, client, state>>

Init ==
    /\ kind \in Kinds
    /\ client = NoClient
    /\ state = NoState
    /\ remote = {}
    /\ last = [op |-> "init", rpcs |-> <<>>, diags |-> <<>>, panicked |-> FALSE]

SpecProvider == Init /\ [][ProviderConfigure]_vars

Next ==
    \/ SessionConfigure
    \/ ClusterCreate
    \/ ClusterRead
    \/ ClusterUpdate
    \/ ClusterDelete
    \/ ClusterImportState
    \/ NodePolicyTargetCreate
    \/ NodePolicyTargetRead
    \/ NodePolicyTargetUpdate
    \/ NodePolicyTargetDelete
    \/ NodePolicyTargetImportState
    \/ NodePolicyCreate
    \/ NodePolicyRead
    \/ NodePolicyUpdate
    \/ NodePolicyDelete
    \/ NodePolicyImportState
    \/ WorkloadPolicyCreate
    \/ WorkloadPolicyRead
    \/ WorkloadPolicyUpdate
    \/ WorkloadPolicyDelete
    \/ WorkloadPolicyImportState
    \/ WorkloadPolicyTargetCreate
    \/ WorkloadPolicyTargetRead
    \/ WorkloadPolicyTargetUpdate
    \/ WorkloadPolicyTargetDelete
    \/ WorkloadPolicyTargetImportState
    \/ OutOfBand

Spec == Init /\ [][Next]_vars

----------------------------------------------------------------------------
(* The conversions on their own: a record is encoded, the message is decoded *)

MaxElems == 2   \* longest list handed to a conversion

\* one run of a conversion, kept in `last`
Converted(op, input, wire, output) ==
    /\ last' = [op |-> op, input |-> input, wire |-> wire, output |-> output,
                rpcs |-> <<>>, diags |-> <<>>, panicked |-> FALSE]
    /\ UNCHANGED <<kind, client, state, remote>>

ClusterIdValues == {"c1", "c2", Unknown}

NodePolicyTargetRecords ==
    [present : {TRUE}, id : {"id-1"}, policy_id : {"policy-1", "policy-2"},
     name : Names, description : {"", "edge pools"},
     enabled : {BoolValue(TRUE), BoolValue(FALSE)},
     cluster_ids : {ListValue(e) : e \in SeqsUpTo(ClusterIdValues, MaxElems)}]

\* toProto, then fromProto of the message it built
NodePolicyTargetRoundTrip ==
    /\ kind = "node_policy_target"
    /\ last.op = "init"
    /\ \E m \in NodePolicyTargetRecords :
        LET target == NodePolicyTargetToProto(m, "team-cfg")
        IN Converted("NodePolicyTargetRoundTrip", m, target.msg,
                     IF target.msg = Nil THEN Nil
                     ELSE NodePolicyTargetFromProto(m, target.msg))

LabelMaps ==
    {MapNull, MapValue(<<>>), MapValue([k \in {"app"} |-> "web"]),
     MapValue([k \in {"app", "env"} |-> IF k = "app" THEN "web" ELSE "prod"])}

ValueLists ==
    {ListNull, ListValue(<<>>), ListValue(<<"frontend", "backend">>),
     ListValue(<<"backend", "frontend">>)}

OperatorNames == {OperatorTable[i][1] : i \in 1..Len(OperatorTable)} \cup {"Near"}

MatchExpressions == [key : {"tier"}, operator : OperatorNames, values : ValueLists]

LabelSelectors ==
    [nil : {FALSE}, match_labels : LabelMaps,
     match_expressions :
         {ListNull} \cup {ListValue(e) : e \in SeqsUpTo(MatchExpressions, MaxElems)}]

\* &LabelSelector{}: both attributes null
EmptyLabelSelector == [nil |-> FALSE, match_labels |-> MapNull, match_expressions |-> ListNull]

\* toProto, then fromProto into a fresh selector
LabelSelectorRoundTrip ==
    /\ kind = "workload_policy_target"
    /\ last.op = "init"
    /\ \E l \in LabelSelectors :
        LET selector == LabelSelectorToProto(l)
        IN Converted("LabelSelectorRoundTrip", l, selector.msg,
                     IF selector.msg = Nil THEN Nil
                     ELSE LabelSelectorFromProto(EmptyLabelSelector, selector.msg))

ZoneExpression(values) ==
    [key |-> "topology.kubernetes.io/zone", operator |-> "In", values |-> values]

ZoneSelectors ==
    [nil : {FALSE}, match_labels : {MapNull, MapValue([k \in {"app"} |-> "web"])},
     match_expressions :
         {ListNull, ListValue(<<ZoneExpression(ListNull)>>),
          ListValue(<<ZoneExpression(ListValue(<<"us-east-1a", "us-east-1b">>))>>)}]

Taints == {ListNull, ListValue(<<>>),
           ListValue(<<[key |-> "gpu", value |-> "true", effect |-> "NoSchedule"]>>)}

DisruptionBudgets ==
    {ListNull, ListValue(<<>>),
     ListValue(<<[reasons |-> ListNull, nodes |-> "10%", schedule |-> Null,
                  duration |-> Null]>>)}

DisruptionPolicies ==
    [nil : {FALSE}, consolidate_after : {"15m"},
     consolidation_policy : {"WhenEmptyOrUnderutilized"}, expire_after : {"720h"},
     ttl_seconds_after_empty : {Int32Value(0)},
     termination_grace_period_seconds : {Int32Value(0)}, budgets : DisruptionBudgets]

ResourceLimits == {[nil |-> FALSE, cpu |-> "100", memory |-> "1000Gi"],
                   [nil |-> FALSE, cpu |-> "100", memory |-> Null]}

NodePolicyRecords ==
    [present : {TRUE}, id : {"id-1"}, name : {"alpha"}, description : {"", "spot pool"},
     weight : {Int32Value(10)}, zones : {Nil} \cup ZoneSelectors,
     zones_tip : {Null, ""},
     labels : {MapNull, MapValue(<<>>), MapValue([k \in {"team"} |-> "core"])},
     taints : Taints, disruption : {Nil} \cup DisruptionPolicies,
     limits : {Nil} \cup ResourceLimits, node_pool_name : {"pool"},
     node_class_name : {"class"}]

\* toProto, then fromProto of the message into the same record, as Create does
NodePolicyRoundTrip ==
    /\ kind = "node_policy"
    /\ last.op = "init"
    /\ \E m \in NodePolicyRecords :
        LET policy == NodePolicyToProto(m, "team-cfg")
        IN Converted("NodePolicyRoundTrip", m, policy.msg,
                     IF policy.msg = Nil THEN Nil
                     ELSE NodePolicyFromProto(m, policy.msg))

\* the lists of distinct elements of S, up to n long
DistinctSeqsUpTo(S, n) ==
    {s \in SeqsUpTo(S, n) : \A i, j \in 1..Len(s) : s[i] = s[j] => i = j}

VerticalScalingBlocks ==
    [nil : {FALSE}, enabled : {BoolValue(TRUE), BoolValue(FALSE)},
     min_request : {Int32Null, Int32Value(100)}]

HorizontalScalingBlocks ==
    [nil : {FALSE}, enabled : {BoolValue(TRUE)},
     min_replicas : {Int32Null, Int32Value(1)},
     primary_metric : {Null, "cpu", "network"}]

WorkloadPolicyRecords ==
    [present : {TRUE}, id : {"id-1"}, name : {"alpha"},
     action_triggers :
         {ListValue(e) : e \in DistinctSeqsUpTo({"on_schedule", "on_detection"},
                                                MaxElems) \ {<<>>}},
     cron_schedule : {"*/15 * * * *", "0 * * * *"},
     detection_triggers :
         {ListValue(e) : e \in DistinctSeqsUpTo({"pod_creation", "pod_update"}, MaxElems)},
     cpu_vertical_scaling : {Nil} \cup VerticalScalingBlocks,
     horizontal_scaling : {Nil} \cup HorizontalScalingBlocks,
     scheduler_plugins :
         {ListValue(e) : e \in {<<>>, <<"dz-scheduler">>, <<"binpack", "dz-scheduler">>}},
     defragmentation_schedule : {"*/15 * * * *"}]

\* toProto, then fromProto of the message into the same record, as Create does
WorkloadPolicyRoundTrip ==
    /\ kind = "workload_policy"
    /\ last.op = "init"
    /\ \E m \in WorkloadPolicyRecords :
        LET policy == WorkloadPolicyToProto(m, "team-cfg")
        IN Converted("WorkloadPolicyRoundTrip", m, policy.msg,
                     IF policy.msg = Nil \/ WorkloadPolicyFromProtoPanics(policy.msg)
                     THEN Nil
                     ELSE WorkloadPolicyFromProto(m, policy.msg))

\* node_policy.go: every string selects RAID0, the only policy
instanceStorePolicyFromString(s) == "INSTANCE_STORE_POLICY_RAID0"

instanceStorePolicyToString(policy) ==
    IF policy = "INSTANCE_STORE_POLICY_RAID0" THEN "RAID0" ELSE ""

EnumTables == {"operator", "primary_metric", "action_trigger", "detection_trigger",
               "instance_store_policy"}

\* the strings handed to the encoding switch of a table: those it has a case
\* for and one it has none for
EnumStrings(table) ==
    CASE table = "operator" -> OperatorNames
      [] table = "primary_metric" ->
            {HPAMetricTable[i][1] : i \in 1..Len(HPAMetricTable)} \cup {"disk"}
      [] table = "action_trigger" -> {"on_schedule", "on_detection", "sometimes"}
      [] table = "detection_trigger" -> {"pod_creation", "pod_update", "pod_deletion"}
      [] table = "instance_store_policy" -> {"RAID0", "RAID1"}

\* the wire value the encoding switch of a table gives (with an error, for the
\* two trigger tables, when no case matches)
EnumEncode(table, value) ==
    CASE table = "operator" -> OperatorFromString(value)
      [] table = "primary_metric" -> toHPAMetric(value)
      [] table = "action_trigger" ->
            IF ActionTriggerConverter(value).ok THEN ActionTriggerConverter(value).val
            ELSE "ACTION_TRIGGER_UNSPECIFIED"
      [] table = "detection_trigger" ->
            IF DetectionTriggerConverter(value).ok
            THEN DetectionTriggerConverter(value).val
            ELSE "DETECTION_TRIGGER_UNSPECIFIED"
      [] table = "instance_store_policy" -> instanceStorePolicyFromString(value)

\* the string the decoding switch of a table gives
EnumDecode(table, wire) ==
    CASE table = "operator" -> labelSelectorOperatorToString(wire)
      [] table = "primary_metric" -> fromHPAMetric(GetPrimaryMetric([PrimaryMetric |-> wire]))
      [] table = "action_trigger" -> ActionTriggerToString(wire)
      [] table = "detection_trigger" -> DetectionTriggerToString(wire)
      [] table = "instance_store_policy" -> instanceStorePolicyToString(wire)

\* one string through the encoding switch and back through the decoding one
EnumRoundTrip ==
    /\ last.op = "init"
    /\ \E table \in EnumTables : \E value \in EnumStrings(table) :
        Converted("EnumRoundTrip", [table |-> table, value |-> value],
                  EnumEncode(table, value),
                  EnumDecode(table, EnumEncode(table, value)))

WireFields == {"operator", "kind_filter", "action_triggers", "detection_triggers",
               "recommendation_mode", "primary_metric"}

ListFields == {"kind_filter", "action_triggers", "detection_triggers"}

\* wire values of a field: one the decoding switch maps, the zero value of the
\* enum, and a number the generated code has no name for
WireEnumValues(field) ==
    CASE field = "operator" ->
            {"LABEL_SELECTOR_OPERATOR_IN", "LABEL_SELECTOR_OPERATOR_UNSPECIFIED", "99"}
      [] field = "kind_filter" ->
            {"K8S_OBJECT_KIND_POD", "K8S_OBJECT_KIND_UNSPECIFIED", "99"}
      [] field = "action_triggers" ->
            {"ACTION_TRIGGER_ON_SCHEDULE", "ACTION_TRIGGER_UNSPECIFIED", "99"}
      [] field = "detection_triggers" ->
            {"DETECTION_TRIGGER_POD_UPDATE", "DETECTION_TRIGGER_UNSPECIFIED", "99"}
      [] field = "recommendation_mode" ->
            {"RECOMMENDATION_MODE_BALANCED", "RECOMMENDATION_MODE_UNSPECIFIED", "99"}
      [] field = "primary_metric" ->
            {"HPA_METRIC_TYPE_CPU", "HPA_METRIC_TYPE_UNSPECIFIED", "99"}

\* what the decoding code stores for the wire values of a field, as a list
\* (of one element for a field that holds a single value)
DecodeField(field, wire) ==
    CASE field = "operator" ->
            [i \in 1..Len(wire) |-> labelSelectorOperatorToString(wire[i])]
      [] field = "kind_filter" -> fromKindFilter(wire)
      [] field = "action_triggers" ->
            [i \in 1..Len(wire) |-> ActionTriggerToString(wire[i])]
      [] field = "detection_triggers" ->
            [i \in 1..Len(wire) |-> DetectionTriggerToString(wire[i])]
      [] field = "recommendation_mode" ->
            [i \in 1..Len(wire) |-> RecommendationModeToString(wire[i])]
      [] field = "primary_metric" ->
            [i \in 1..Len(wire) |-> fromHPAMetric(wire[i])]

\* the wire values of one field of a message are decoded
WireDecode ==
    /\ last.op = "init"
    /\ \E field \in WireFields :
        \E wire \in IF field \in ListFields
                    THEN SeqsUpTo(WireEnumValues(field), MaxElems)
                    ELSE [1..1 -> WireEnumValues(field)] :
            Converted("WireDecode", [field |-> field], wire, DecodeField(field, wire))

KindNames == {KindTable[i][1] : i \in 1..Len(KindTable)}
KindStrings == KindNames \cup {"Unspecified", "Gadget"}
WireKinds == {KindTable[i][2] : i \in 1..Len(KindTable)}
                 \cup {"K8S_OBJECT_KIND_UNSPECIFIED", "99"}

\* getKindFilters, then fromKindFilter of the kinds it returned
KindFilterEncode ==
    /\ kind = "workload_policy_target"
    /\ last.op = "init"
    /\ \E values \in SeqsUpTo(KindStrings, MaxElems) :
        LET kindFilters == getKindFilters(values)
        IN Converted("KindFilterEncode", values, kindFilters,
                     IF Len(kindFilters.err) > 0 THEN Nil
                     ELSE ListValue(fromKindFilter(kindFilters.elements)))

\* fromKindFilter, then getKindFilters of the strings it returned
KindFilterDecode ==
    /\ kind = "workload_policy_target"
    /\ last.op = "init"
    /\ \E kinds \in SeqsUpTo(WireKinds, MaxElems) :
        Converted("KindFilterDecode", kinds, getKindFilters(fromKindFilter(kinds)),
                  ListValue(fromKindFilter(kinds)))

\* node_policy.go, Schema: the static defaults of the attributes of a disruption
\* block, which fill the attributes a configured block leaves null
DisruptionDefaultsWithoutExpiry(disruption) ==
    [disruption EXCEPT
        !.consolidate_after = IF @ = Null THEN "15m" ELSE @,
        !.consolidation_policy = IF @ = Null THEN "WhenEmptyOrUnderutilized" ELSE @,
        !.ttl_seconds_after_empty = IF @.null THEN Int32Value(0) ELSE @,
        !.termination_grace_period_seconds = IF @.null THEN Int32Value(0) ELSE @]

DisruptionDefaults(disruption) ==
    [disruption EXCEPT
        !.consolidate_after = IF @ = Null THEN "15m" ELSE @,
        !.consolidation_policy = IF @ = Null THEN "WhenEmptyOrUnderutilized" ELSE @,
        !.expire_after = IF @ = Null THEN "720h" ELSE @,
        !.ttl_seconds_after_empty = IF @.null THEN Int32Value(0) ELSE @,
        !.termination_grace_period_seconds = IF @.null THEN Int32Value(0) ELSE @]

\* the planned record of a configuration: description and weight have defaults;
\* the disruption attribute has none of its own, so a configuration without the
\* block plans a null block, and the defaults of its attributes apply inside a
\* block that is configured
NodePolicyDefaults(config) ==
    [config EXCEPT
        !.description = IF @ = Null THEN "" ELSE @,
        !.weight = IF @.null THEN Int32Value(10) ELSE @,
        !.disruption = IF @ = Nil THEN Nil ELSE DisruptionDefaults(@)]

DisruptionConfigs ==
    [nil : {FALSE}, consolidate_after : {Null, "5m"},
     consolidation_policy : {Null, "WhenEmpty"}, expire_after : {Null, "24h"},
     ttl_seconds_after_empty : {Int32Null, Int32Value(30)},
     termination_grace_period_seconds : {Int32Null, Int32Value(60)},
     budgets : {ListNull,
                ListValue(<<[reasons |-> ListValue(<<"Empty">>), nodes |-> "10%",
                             schedule |-> Null, duration |-> Null]>>)}]

NodePolicyConfigs ==
    [present : {TRUE}, id : {Unknown}, name : {"minimal-policy"},
     description : {Null, "spot pool"}, weight : {Int32Null, Int32Value(50)},
     zones : {Nil}, zones_tip : {Null}, labels : {MapNull}, taints : {ListNull},
     disruption : {Nil} \cup DisruptionConfigs, limits : {Nil},
     node_pool_name : {"default-pool"}, node_class_name : {"default-class"}]

\* a configuration is planned with the schema's defaults and the planned
\* record is converted for the create request
NodePolicyPlan ==
    /\ kind = "node_policy"
    /\ last.op = "init"
    /\ \E config \in NodePolicyConfigs :
        Converted("NodePolicyPlan", config,
                  NodePolicyToProto(NodePolicyDefaults(config), "team-cfg").msg,
                  NodePolicyDefaults(config))

\* the switch of toProto on recommendation_mode: the zero mode without a case
RecommendationModeFromString(value) ==
    CASE value = "balanced" -> "RECOMMENDATION_MODE_BALANCED"
      [] value = "aggressive" -> "RECOMMENDATION_MODE_AGGRESSIVE"
      [] value = "conservative" -> "RECOMMENDATION_MODE_CONSERVATIVE"
      [] OTHER -> "RECOMMENDATION_MODE_UNSPECIFIED"

\* the message of toProto with every field its return statement fills from the
\* planned record (Nil when a conversion failed)
WorkloadPolicyRequest(m, teamId) ==
    LET policy == WorkloadPolicyToProto(m, teamId)
    IN IF policy.msg = Nil THEN Nil
       ELSE policy.msg @@
                [Description |-> ValueString(m.description),
                 RecommendationMode |->
                     RecommendationModeFromString(ValueString(m.recommendation_mode)),
                 LiveMigrationEnabled |-> ValueBool(m.live_migration_enabled)]

\* the attributes of a workload policy a configuration can set, each with the
\* value of the planned record below and another value
ConfigurableValues ==
    [name |-> {"alpha", "beta"},
     description |-> {"", "batch workloads"},
     action_triggers |-> {ListValue(<<"on_schedule">>), ListValue(<<"on_detection">>)},
     cron_schedule |-> {"*/15 * * * *", "0 * * * *"},
     detection_triggers |-> {ListValue(<<"pod_creation">>), ListValue(<<"pod_update">>)},
     recommendation_mode |-> {"balanced", "aggressive"},
     loopback_period_seconds |-> {Int32Value(86400), Int32Value(3600)},
     startup_period_seconds |-> {Int32Value(0), Int32Value(60)},
     cpu_vertical_scaling |->
         {Nil, [nil |-> FALSE, enabled |-> BoolValue(TRUE), min_request |-> Int32Value(100)]},
     horizontal_scaling |->
         {Nil, [nil |-> FALSE, enabled |-> BoolValue(TRUE),
                min_replicas |-> Int32Value(1), primary_metric |-> "cpu"]},
     live_migration_enabled |-> {BoolValue(FALSE), BoolValue(TRUE)},
     scheduler_plugins |-> {ListValue(<<"dz-scheduler">>), ListValue(<<"binpack">>)},
     defragmentation_schedule |-> {"*/15 * * * *", "0 3 * * *"}]

PlannedPolicy ==
    [present |-> TRUE, id |-> Unknown, name |-> "alpha", description |-> "",
     action_triggers |-> ListValue(<<"on_schedule">>), cron_schedule |-> "*/15 * * * *",
     detection_triggers |-> ListValue(<<"pod_creation">>),
     recommendation_mode |-> "balanced",
     loopback_period_seconds |-> Int32Value(86400),
     startup_period_seconds |-> Int32Value(0),
     cpu_vertical_scaling |-> Nil, horizontal_scaling |-> Nil,
     live_migration_enabled |-> BoolValue(FALSE),
     scheduler_plugins |-> ListValue(<<"dz-scheduler">>),
     defragmentation_schedule |-> "*/15 * * * *"]

\* the records that differ from m in at most one configurable attribute
Variants(m) ==
    {[m EXCEPT ![a] = v] : <<a, v>> \in
        UNION {{<<b, w>> : w \in ConfigurableValues[b]} : b \in DOMAIN ConfigurableValues}}

\* two planned records that differ in one configurable attribute are encoded
\* for the create or update request
WorkloadPolicyEncodePair ==
    /\ kind = "workload_policy"
    /\ last.op = "init"
    /\ \E m1 \in Variants(PlannedPolicy) :
        \E m2 \in Variants(m1) \ {m1} :
            Converted("WorkloadPolicyEncodePair", <<m1, m2>>,
                      <<WorkloadPolicyRequest(m1, "team-cfg"),
                        WorkloadPolicyRequest(m2, "team-cfg")>>, Nil)

\* wire label selectors: the labels map nil, present but empty, or with an
\* entry; expressions with mapped operators and one without a case
WireMatchExpressions ==
    [Key : {"tier"},
     Operator : {"LABEL_SELECTOR_OPERATOR_IN", "LABEL_SELECTOR_OPERATOR_EXISTS", "99"},
     Values : {<<>>, <<"frontend">>}]

WireSelectors ==
    [nil : {FALSE}, MatchLabels : {Nil, <<>>, [k \in {"app"} |-> "web"]},
     MatchExpressions : SeqsUpTo(WireMatchExpressions, MaxElems)]

\* one wire selector decoded by labelSelectorFromProto of the node policy and,
\* into a fresh selector, by LabelSelector.fromProto of the target
LabelSelectorDecode ==
    /\ kind \in {"node_policy", "workload_policy_target"}
    /\ last.op = "init"
    /\ \E selector \in WireSelectors :
        Converted("LabelSelectorDecode", selector, selector,
                  [node |-> labelSelectorFromProto(selector),
                   target |-> LabelSelectorFromProto(EmptyLabelSelector, selector)])

\* the nested blocks of a workload policy and of a workload policy target
NestedBlocks ==
    {"namespace_selector", "workload_selector", "name_pattern",
     "cpu_vertical_scaling", "memory_vertical_scaling", "gpu_vertical_scaling",
     "gpu_vram_vertical_scaling", "horizontal_scaling"}

SelectorFields == {"namespace_selector", "workload_selector"}

\* the blocks a model can hold in a field before a response is decoded
ModelBlocks(field) ==
    {Nil} \cup
    CASE field \in SelectorFields ->
             {EmptyLabelSelector,
              [nil |-> FALSE, match_labels |-> MapValue([k \in {"env"} |-> "prod"]),
               match_expressions |-> ListNull]}
      [] field = "name_pattern" -> NamePatterns \ {Nil}
      [] field = "horizontal_scaling" -> HorizontalScalingBlocks
      [] OTHER -> VerticalScalingBlocks

\* the blocks a response can carry in the field
WireBlocks(field) ==
    {Nil} \cup
    CASE field \in SelectorFields ->
             {[nil |-> FALSE, MatchLabels |-> [k \in {"app"} |-> "web"],
               MatchExpressions |-> <<>>],
              [nil |-> FALSE, MatchLabels |-> Nil,
               MatchExpressions |->
                   <<[Key |-> "tier", Operator |-> "LABEL_SELECTOR_OPERATOR_IN",
                      Values |-> <<"frontend">>]>>]}
      [] field = "name_pattern" -> WireNamePatterns \ {Nil}
      [] field = "horizontal_scaling" ->
             {HorizontalScalingOptionsToProto(o) : o \in HorizontalScalingBlocks}
      [] OTHER -> {VerticalScalingOptionsToProto(o) : o \in VerticalScalingBlocks}

\* the call fromProto of the two models makes for the field
DecodeBlock(field, block, wire) ==
    CASE field \in SelectorFields -> LabelSelectorFromProto(block, wire)
      [] field = "name_pattern" -> RegexPatternFromProto(block, wire)
      [] field = "horizontal_scaling" -> HorizontalScalingOptionsFromProto(block, wire)
      [] OTHER -> VerticalScalingOptionsFromProto(block, wire)

\* a response is decoded into a model that holds, or does not hold, the block
NestedBlockDecode ==
    /\ kind \in {"workload_policy", "workload_policy_target"}
    /\ last.op = "init"
    /\ \E field \in NestedBlocks :
        /\ (field \in SelectorFields \cup {"name_pattern"})
               <=> (kind = "workload_policy_target")
        /\ \E block \in ModelBlocks(field), wire \in WireBlocks(field) :
            Converted("NestedBlockDecode", [field |-> field, block |-> block], wire,
                      DecodeBlock(field, block, wire))

MaxValues == 3  \* longest list handed to getElementList on its own

ElementInputs == {"Pod", "Job", "Gadget", "Widget", Unknown}

\* getElementList with the converter of kind_filter, on lists of values that
\* convert, values the converter rejects and values that cannot be read
ElementListConvert ==
    /\ kind = "workload_policy_target"
    /\ last.op = "init"
    /\ \E values \in SeqsUpTo(ElementInputs, MaxValues) :
        LET result == getElementList(values,
                          [value \in ElementValues(values) |-> KindConverter(value)])
        IN Converted("getElementList", values, result, JoinedText(result.err))

NextCodec ==
    \/ ElementListConvert
    \/ LabelSelectorDecode
    \/ WorkloadPolicyEncodePair
    \/ NestedBlockDecode
    \/ NodePolicyTargetRoundTrip
    \/ LabelSelectorRoundTrip
    \/ NodePolicyRoundTrip
    \/ WorkloadPolicyRoundTrip
    \/ EnumRoundTrip
    \/ WireDecode
    \/ KindFilterEncode
    \/ KindFilterDecode
    \/ NodePolicyPlan

SpecCodec == Init /\ [][NextCodec]_vars

----------------------------------------------------------------------------
(* Properties *)

Handled(ops) == last.op \in ops
RpcNames(rpcs) == [i \in 1..Len(rpcs) |-> rpcs[i].rpc]
SomeRpcFailed(rpcs) == \E i \in 1..Len(rpcs) : rpcs[i].err # NoErr
Reports(diags, text) ==
    \E j \in 1..Len(diags) : diags[j].severity = "error" /\ diags[j].text = text

LocalDeleteKinds == {"node_policy", "node_policy_target"}
RemoteDeleteKinds == {"cluster", "workload_policy", "workload_policy_target"}

\* C1: Delete of a NodePolicy or a NodePolicyTarget issues no RPC and reports
\* no error; the resource leaves local state, the backend's records are what
\* they were, and a record with that id that existed is still listed.
LocalDeleteLeavesRemote ==
    [][(last'.op = "Delete" /\ kind \in LocalDeleteKinds) =>
          /\ last'.rpcs = <<>>
          /\ ~HasError(last'.diags)
          /\ state' = NoState
          /\ remote' = remote
          /\ (state.id \in remote =>
                \E i \in 1..Len(ListedIds') : ListedIds'[i] = state.id)]_vars

LocalDeleteWitness ==
    /\ last.op = "Delete"
    /\ kind \in LocalDeleteKinds
    /\ state = NoState
    /\ last.id \in remote

\* C2: on Cluster Update, ResetClusterToken is invoked exactly when the planned
\* token is null, unknown or empty and UpdateCluster has succeeded (no error, a
\* cluster in the response), as the second RPC; a non-empty token it returns is
\* the token written to state; without it the written token is the planned one.
PlannedTokenMissing(plan) ==
    plan.token = Null \/ plan.token = Unknown \/ plan.token = ""

TokenRotationOnUpdate ==
    (last.op = "Update" /\ kind = "cluster") =>
        LET rpcs == last.rpcs
            updated == /\ Len(rpcs) >= 1
                       /\ rpcs[1].rpc = "UpdateCluster"
                       /\ rpcs[1].err = NoErr
                       /\ rpcs[1].resp.Cluster # Nil
            invoked == \E i \in 1..Len(rpcs) : rpcs[i].rpc = "ResetClusterToken"
        IN /\ invoked <=> (PlannedTokenMissing(last.plan) /\ updated)
           /\ invoked => RpcNames(rpcs) = <<"UpdateCluster", "ResetClusterToken">>
           /\ (invoked /\ rpcs[2].err = NoErr /\ rpcs[2].resp.Token # "") =>
                 (last.wrote /\ state.token = rpcs[2].resp.Token)
           /\ (~invoked /\ last.wrote) => state.token = last.plan.token

TokenRotationWitness ==
    /\ last.op = "Update"
    /\ kind = "cluster"
    /\ last.plan.token = Unknown
    /\ Len(last.rpcs) = 2
    /\ last.wrote
    /\ state.token = "tok-2"

\* C3: when an RPC invoked by a Create, Read or Update handler returns an error,
\* an error diagnostic carries the error's text and state is not written: local
\* state is what it was before the operation.
RpcErrorLeavesState ==
    [][(last'.op \in {"Create", "Read", "Update"} /\ SomeRpcFailed(last'.rpcs)) =>
          /\ \A i \in 1..Len(last'.rpcs) :
                last'.rpcs[i].err # NoErr => Reports(last'.diags, last'.rpcs[i].err)
          /\ ~last'.wrote
          /\ state' = state]_vars

RpcErrorWitness ==
    /\ last.op = "Update"
    /\ kind = "cluster"
    /\ Len(last.rpcs) = 2
    /\ last.rpcs[2].err = "permission_denied"
    /\ Reports(last.diags, "permission_denied")
    /\ state.present

\* whether converting the planned record of a resource to its wire form fails
ConversionFails(k, plan) ==
    CASE k = "cluster" -> FALSE
      [] k = "node_policy" ->
            plan.zones # Nil /\
                \E i \in 1..Len(plan.zones.match_expressions.elems) :
                    \E j \in 1..Len(plan.zones.match_expressions.elems[i].values.elems) :
                        plan.zones.match_expressions.elems[i].values.elems[j] = Unknown
      [] k = "node_policy_target" ->
            \E i \in 1..Len(plan.cluster_ids.elems) : plan.cluster_ids.elems[i] = Unknown
      [] k = "workload_policy" ->
            \E i \in 1..Len(plan.action_triggers.elems) :
                plan.action_triggers.elems[i] \notin {"on_schedule", "on_detection"}
      [] k = "workload_policy_target" ->
            \E i \in 1..Len(plan.kind_filter.elems) :
                plan.kind_filter.elems[i] \notin
                    {"Pod", "Job", "Deployment", "StatefulSet", "DaemonSet",
                     "ReplicaSet", "CronJob", "ReplicationController", "Rollout"}

ReadFoundNothing ==
    /\ last.op = "Read"
    /\ Len(last.rpcs) = 1
    /\ last.rpcs[1].err = NoErr
    /\ CASE kind = "cluster" -> last.rpcs[1].resp.Cluster = Nil
         [] kind = "workload_policy" -> last.rpcs[1].resp.Policy = Nil
         [] kind = "workload_policy_target" -> last.rpcs[1].resp.Target = Nil
         [] kind = "node_policy" ->
               \A i \in 1..Len(last.rpcs[1].resp.Policies) :
                   last.rpcs[1].resp.Policies[i].Id # last.id
         [] kind = "node_policy_target" ->
               \A i \in 1..Len(last.rpcs[1].resp.Targets) :
                   last.rpcs[1].resp.Targets[i].TargetId # last.id

\* C5: when Read finds no remote entity for the id held in state, it surfaces
\* a diagnostic and the resource does not remain in local state as an existing
\* resource.
ReadNotFoundDropsResource ==
    ReadFoundNothing => (HasError(last.diags) /\ ~state.present)

\* whether a successful response holds the entity the handler asked for
HoldsEntity(resp) ==
    /\ "Cluster" \in DOMAIN resp => resp.Cluster # Nil
    /\ "Token" \in DOMAIN resp => resp.Token # ""
    /\ "Policy" \in DOMAIN resp => resp.Policy # Nil
    /\ "Target" \in DOMAIN resp => resp.Target # Nil
    /\ "Policies" \in DOMAIN resp =>
          \E i \in 1..Len(resp.Policies) :
              last.op = "Create" \/ resp.Policies[i].Id = last.id
    /\ "Targets" \in DOMAIN resp =>
          \E i \in 1..Len(resp.Targets) :
              last.op = "Create" \/ resp.Targets[i].TargetId = last.id

\* C6: an operation fails only when an RPC it invoked returned an error: when
\* every RPC of a Create, Read or Update succeeded and returned the entity,
\* whatever optional fields the entity omits, the handler neither aborts nor
\* reports an error, and persists state.
SuccessfulRpcAlwaysPersists ==
    (/\ last.op \in {"Create", "Read", "Update"}
     /\ Len(last.rpcs) >= 1
     /\ \A i \in 1..Len(last.rpcs) :
            last.rpcs[i].err = NoErr /\ HoldsEntity(last.rpcs[i].resp)
     /\ ~(last.op # "Read" /\ ConversionFails(kind, last.plan))) =>
        (~last.panicked /\ ~HasError(last.diags) /\ last.wrote)

DeleteRequestId(req) ==
    CASE kind = "cluster" -> req.ClusterId
      [] kind = "workload_policy" -> req.PolicyId
      [] kind = "workload_policy_target" ->
            IF Len(req.TargetIds) = 1 THEN req.TargetIds[1] ELSE NilString

\* C7: Delete of a Cluster, WorkloadPolicy or WorkloadPolicyTarget issues
\* exactly one delete RPC carrying the configured team id and the id held in
\* state; if it fails an error is reported and the resource stays in local
\* state, otherwise the resource is removed from local state.
RemoteDeleteIssuesOneRpc ==
    [][(last'.op = "Delete" /\ kind \in RemoteDeleteKinds) =>
          /\ Len(last'.rpcs) = 1
          /\ last'.rpcs[1].rpc \in {"DeleteCluster", "DeleteWorkloadRecommendationPolicy",
                                    "DeleteWorkloadPolicyTarget"}
          /\ last'.rpcs[1].req.TeamId = client.TeamId
          /\ DeleteRequestId(last'.rpcs[1].req) = ValueString(state.id)
          /\ IF last'.rpcs[1].err # NoErr
             THEN HasError(last'.diags) /\ state' = state
             ELSE state' = NoState]_vars

RemoteDeleteWitness ==
    /\ last.op = "Delete"
    /\ kind = "workload_policy_target"
    /\ last.rpcs[1].err # NoErr
    /\ state.present
    /\ client.TeamId = "team-env"

\* the value a setting resolves to, as the configuration surface describes it
Explicit(configured, fromEnv) == IF configured = Null THEN fromEnv ELSE configured

\* C8: for each of URL, team id and token independently, Configure uses the
\* explicitly configured value whenever one is given (non-null) and otherwise
\* the value of the environment variable; a URL that resolves to the empty
\* string falls back to the built-in default URL.
ExplicitOverridesEnvironment ==
    (last.op = "Configure" /\ client # NoClient) =>
        /\ client.TeamId = Explicit(last.data.team_id, last.env.DEVZERO_TEAM_ID)
        /\ client.token = Explicit(last.data.token, last.env.DEVZERO_TOKEN)
        /\ client.url = IF Explicit(last.data.url, last.env.DEVZERO_URL) = ""
                        THEN "https://dakr.devzero.io"
                        ELSE Explicit(last.data.url, last.env.DEVZERO_URL)

ExplicitOverridesWitness ==
    /\ last.op = "Configure"
    /\ last.data.team_id = "team-cfg"
    /\ last.env.DEVZERO_TEAM_ID = "team-env"
    /\ last.data.url = ""
    /\ last.env.DEVZERO_URL = "https://env.example"
    /\ client # NoClient
    /\ client.TeamId = "team-cfg"
    /\ client.url = "https://dakr.devzero.io"

\* C9: Configure hands a client set to resources only if it reported no error;
\* it reports an error and builds no client when any of the three settings is
\* unknown, or when the team id or the token resolves to the empty string; a
\* missing URL alone is never an error.
ClientOnlyWithoutError ==
    last.op = "Configure" =>
        LET data == last.data
            anyUnknown == Unknown \in {data.url, data.team_id, data.token}
            noTeam == Explicit(data.team_id, last.env.DEVZERO_TEAM_ID) = ""
            noToken == Explicit(data.token, last.env.DEVZERO_TOKEN) = ""
        IN /\ (client # NoClient) <=> ~HasError(last.diags)
           /\ HasError(last.diags) <=> (anyUnknown \/ noTeam \/ noToken)

ClientOnlyWitness ==
    /\ last.op = "Configure"
    /\ last.data.url = Null
    /\ last.env.DEVZERO_URL = ""
    /\ last.data.token = Null
    /\ last.env.DEVZERO_TOKEN = "token-env"
    /\ client # NoClient

\* C10 as stated: once Create has stored an id, no Read or Update changes the
\* id held in local state, whatever the backend returns.
IdNeverChanges ==
    [][(/\ last.op = "Create"
        /\ last.wrote
        /\ last'.op \in {"Read", "Update"}) => state'.id = state.id]_vars

\* the id of the entity a Read or Update decoded, NilString when it decoded none
DecodedId(rpcs) ==
    IF Len(rpcs) = 0 \/ rpcs[1].err # NoErr THEN NilString
    ELSE CASE kind = "cluster" -> NilString
           [] kind = "workload_policy" ->
                 IF rpcs[1].resp.Policy = Nil THEN NilString
                 ELSE rpcs[1].resp.Policy.PolicyId
           [] kind = "workload_policy_target" ->
                 IF rpcs[1].resp.Target = Nil THEN NilString
                 ELSE rpcs[1].resp.Target.TargetId
           [] kind = "node_policy" ->
                 IF rpcs[1].rpc = "ListNodePolicies" \/ rpcs[1].resp.Policy = Nil
                 THEN NilString ELSE rpcs[1].resp.Policy.Id
           [] kind = "node_policy_target" ->
                 IF rpcs[1].rpc = "ListNodePolicyTargets" \/ rpcs[1].resp.Target = Nil
                 THEN NilString ELSE rpcs[1].resp.Target.TargetId

\* C10 amended: a Read or Update changes the id held in local state only by
\* writing the id of the entity the backend returned: the id is unchanged
\* whenever that entity carries the id held in state, and always for Cluster,
\* for the list-based Reads of NodePolicy and NodePolicyTarget, and for an
\* operation that fails.
IdFollowsResponse ==
    [][(last'.op \in {"Read", "Update"} /\ state'.id # state.id) =>
          /\ last'.wrote
          /\ DecodedId(last'.rpcs) # NilString
          /\ state'.id = DecodedId(last'.rpcs)]_vars

IdFollowsResponseWitness ==
    /\ last.op = "Update"
    /\ kind = "node_policy_target"
    /\ last.wrote
    /\ state.id # last.id
    /\ state.id = last.rpcs[1].resp.Target.TargetId

\* C11: Import stores the given identifier as the resource id and nothing else,
\* and the Read that follows an Import leaves local state equal to the decoded
\* remote record in every attribute the record carries, nested blocks included.
ImportedOnly(st) ==
    /\ st.present
    /\ \A f \in DOMAIN st \ {"present", "id"} :
          st[f] = (CASE f \in {"cluster_ids", "action_triggers", "kind_filter",
                                "labels", "taints", "detection_triggers",
                                "scheduler_plugins"} -> ListNull
                     [] f \in {"name_pattern", "zones", "disruption", "limits",
                                "cpu_vertical_scaling", "horizontal_scaling"} -> Nil
                     [] f \in {"enabled", "weight"} -> BoolNull
                     [] OTHER -> Null)

\* the record a workload policy target of the backend decodes to
DecodedTarget(target) ==
    [present |-> TRUE, id |-> target.TargetId, name |-> target.Name,
     kind_filter |-> ListValue(fromKindFilter(target.KindFilter)),
     name_pattern |-> IF target.NamePattern = Nil THEN Nil
                      ELSE [nil |-> FALSE, pattern |-> target.NamePattern.Pattern,
                            flags |-> target.NamePattern.Flags]]

ImportThenReadMatchesRemote ==
    [][/\ last'.op = "Import" => (ImportedOnly(state') /\ state'.id \in Ids)
       /\ (kind = "workload_policy_target" /\ last.op = "Import"
            /\ last'.op = "Read" /\ last'.wrote
            /\ last'.rpcs[1].resp.Target.TargetId = state.id)
           => state' = DecodedTarget(last'.rpcs[1].resp.Target)]_vars

\* C12: for every NodePolicyTarget record with known values, fromProto(toProto(R))
\* has the policy_id, name, description, enabled and cluster_ids of R, the
\* cluster ids in the same order, none lost and none repeated.
KnownElements(list) == \A i \in 1..Len(list.elems) : list.elems[i] \notin {Null, Unknown}

NodePolicyTargetRoundTripPreserves ==
    (last.op = "NodePolicyTargetRoundTrip" /\ KnownElements(last.input.cluster_ids)) =>
        /\ last.output # Nil
        /\ \A f \in {"policy_id", "name", "description", "enabled", "cluster_ids"} :
              last.output[f] = last.input[f]

NodePolicyTargetRoundTripWitness ==
    /\ last.op = "NodePolicyTargetRoundTrip"
    /\ last.input.cluster_ids = ListValue(<<"c1", "c2">>)
    /\ last.input.enabled = BoolValue(FALSE)
    /\ last.wire.ClusterIds = <<"c1", "c2">>
    /\ last.wire.Enabled = FALSE
    /\ last.output.cluster_ids = ListValue(<<"c1", "c2">>)
    /\ last.output.enabled = BoolValue(FALSE)

\* C13: a LabelSelector with non-empty match_labels and one or more match
\* expressions over In, NotIn, Exists, DoesNotExist, Gt and Lt, each with an
\* explicit (possibly empty) values list, is what fromProto(toProto(S)) returns:
\* equal labels, the expressions and each expression's values in the same order.
DeclaredOperators == {"In", "NotIn", "Exists", "DoesNotExist", "Gt", "Lt"}

ExplicitSelector(l) ==
    /\ ~l.match_labels.null
    /\ DOMAIN l.match_labels.elems # {}
    /\ ~l.match_expressions.null
    /\ Len(l.match_expressions.elems) >= 1
    /\ \A i \in 1..Len(l.match_expressions.elems) :
          /\ l.match_expressions.elems[i].operator \in DeclaredOperators
          /\ ~l.match_expressions.elems[i].values.null

LabelSelectorRoundTripPreserves ==
    (last.op = "LabelSelectorRoundTrip" /\ ExplicitSelector(last.input)) =>
        last.output = last.input

LabelSelectorRoundTripWitness ==
    /\ last.op = "LabelSelectorRoundTrip"
    /\ ExplicitSelector(last.input)
    /\ last.input.match_expressions =
           ListValue(<<[key |-> "tier", operator |-> "In",
                        values |-> ListValue(<<"frontend", "backend">>)]>>)
    /\ last.wire.MatchExpressions[1].Values = <<"frontend", "backend">>
    /\ last.output = last.input

\* C14: for every NodePolicy record R with known values, fromProto(toProto(R))
\* preserves every field, whatever optional fields are set: selectors with or
\* without match_labels and expression values, labels, taints, disruption with
\* its budgets, limits and tooltips; a collection that is set but empty and a
\* string set to the empty string are values to preserve.
NodePolicyRoundTripPreserves ==
    last.op = "NodePolicyRoundTrip" =>
        /\ last.output # Nil
        /\ \A f \in DOMAIN last.input : last.output[f] = last.input[f]

\* C15: for every valid WorkloadPolicy record R, fromProto(toProto(R)) preserves
\* every field: action_triggers and detection_triggers in order, the cron and
\* defragmentation schedules, scheduler_plugins in order and each scaling block,
\* an optional field left unset (horizontal_scaling.primary_metric, min_request)
\* being still unset after the round trip.
WorkloadPolicyRoundTripPreserves ==
    last.op = "WorkloadPolicyRoundTrip" =>
        /\ last.output # Nil
        /\ \A f \in DOMAIN last.input : last.output[f] = last.input[f]

\* C16: each enum table is injective on its declared strings and encoding then
\* decoding is the identity on them: operators In, NotIn, Exists, DoesNotExist,
\* Gt, Lt; primary metrics cpu, memory, gpu, network; action triggers
\* on_schedule, on_detection; detection triggers pod_creation, pod_update; the
\* instance-store policy RAID0.
DeclaredStrings(table) ==
    CASE table = "operator" -> DeclaredOperators
      [] table = "primary_metric" -> {"cpu", "memory", "gpu", "network"}
      [] table = "action_trigger" -> {"on_schedule", "on_detection"}
      [] table = "detection_trigger" -> {"pod_creation", "pod_update"}
      [] table = "instance_store_policy" -> {"RAID0"}

EnumTablesInvertible ==
    (last.op = "EnumRoundTrip"
     /\ last.input.value \in DeclaredStrings(last.input.table)) =>
        /\ last.output = last.input.value
        /\ \A other \in DeclaredStrings(last.input.table) :
              EnumEncode(last.input.table, other) = last.wire => other = last.input.value

EnumTablesWitness ==
    /\ last.op = "EnumRoundTrip"
    /\ last.input = [table |-> "primary_metric", value |-> "network"]
    /\ last.wire = "HPA_METRIC_TYPE_NETWORK"
    /\ last.output = "network"

\* C17: decoding never fails on a wire enum value without a mapping: each such
\* value yields an explicit "unspecified" sentinel string (a known, non-empty
\* string) in the decoded record, for operators, kinds, action and detection
\* triggers, recommendation mode and primary metric alike, and a list-valued
\* field keeps exactly one element per wire element.
MappedWireValues ==
    {"LABEL_SELECTOR_OPERATOR_IN", "K8S_OBJECT_KIND_POD", "ACTION_TRIGGER_ON_SCHEDULE",
     "DETECTION_TRIGGER_POD_UPDATE", "RECOMMENDATION_MODE_BALANCED", "HPA_METRIC_TYPE_CPU"}

UnmappedDecodesToSentinel ==
    last.op = "WireDecode" =>
        /\ Len(last.output) = Len(last.wire)
        /\ \A i \in 1..Len(last.wire) :
              last.wire[i] \notin MappedWireValues =>
                  last.output[i] \notin {Null, Unknown, ""}

NineKindNames == {"Pod", "Job", "Deployment", "StatefulSet", "DaemonSet", "ReplicaSet",
                  "CronJob", "ReplicationController", "Rollout"}

\* getKindFilters maps the nine kind names to distinct wire kinds in input order
\* and fails with an error naming the value for any other string, and
\* fromKindFilter(getKindFilters(L)) = L for every list L of those names
KindFilterEncodes ==
    last.op = "KindFilterEncode" =>
        IF \A i \in 1..Len(last.input) : last.input[i] \in NineKindNames
        THEN /\ last.wire.err = <<>>
             /\ Len(last.wire.elements) = Len(last.input)
             /\ \A i, j \in 1..Len(last.input) :
                   (last.wire.elements[i] = last.wire.elements[j])
                       <=> (last.input[i] = last.input[j])
             /\ last.output = ListValue(last.input)
        ELSE /\ last.output = Nil
             /\ \A i \in 1..Len(last.input) :
                   last.input[i] \notin NineKindNames =>
                       \E j \in 1..Len(last.wire.err) :
                           last.wire.err[j] = "invalid kind: " \o last.input[i]

\* C18 as stated: kind_filter encoding and decoding are mutually inverse: the
\* above, and every string list that fromKindFilter can produce is accepted back
\* by getKindFilters.
KindFilterMutuallyInverse ==
    /\ KindFilterEncodes
    /\ last.op = "KindFilterDecode" => last.wire.err = <<>>

\* C18 amended: getKindFilters maps the nine kind names to distinct wire kinds
\* in input order and fails with an error naming the value for any other
\* string; fromKindFilter(getKindFilters(L)) = L for every list L of those
\* names; a list fromKindFilter produces is accepted back by getKindFilters
\* exactly when the wire kinds hold no K8S_OBJECT_KIND_UNSPECIFIED, whose
\* decoded name "Unspecified" getKindFilters rejects as an invalid kind.
KindFilterInverseOnNames ==
    /\ KindFilterEncodes
    /\ last.op = "KindFilterDecode" =>
          LET unspecified == {i \in 1..Len(last.input) :
                                 last.input[i] = "K8S_OBJECT_KIND_UNSPECIFIED"}
          IN /\ (last.wire.err = <<>>) <=> (unspecified = {})
             /\ \A j \in 1..Len(last.wire.err) :
                   last.wire.err[j] = "invalid kind: Unspecified"
             /\ Len(last.wire.err) = Cardinality(unspecified)

KindFilterInverseWitness ==
    /\ last.op = "KindFilterDecode"
    /\ last.input = <<"K8S_OBJECT_KIND_ARGO_ROLLOUT", "K8S_OBJECT_KIND_UNSPECIFIED">>
    /\ last.output = ListValue(<<"Rollout", "Unspecified">>)
    /\ last.wire.err = <<"invalid kind: Unspecified">>

\* a disruption block that is present and sets nothing
EmptyDisruption ==
    [nil |-> FALSE, consolidate_after |-> Null, consolidation_policy |-> Null,
     expire_after |-> Null, ttl_seconds_after_empty |-> Int32Null,
     termination_grace_period_seconds |-> Int32Null, budgets |-> ListNull]

\* C19: for a node policy whose disruption block is present but empty, the
\* record converted and sent has consolidate_after "15m", consolidation_policy
\* "WhenEmptyOrUnderutilized", expire_after "720h", ttl_seconds_after_empty 0 and
\* termination_grace_period_seconds 0; defaults are applied before conversion,
\* so toProto never reads an unset default-bearing field of a block.
EmptyDisruptionGetsDefaults ==
    last.op = "NodePolicyPlan" =>
        /\ last.input.disruption = EmptyDisruption =>
              /\ last.wire # Nil
              /\ last.wire.Disruption =
                     [nil |-> FALSE, ConsolidateAfter |-> "15m",
                      ConsolidationPolicy |-> "WhenEmptyOrUnderutilized",
                      ExpireAfter |-> "720h", TtlSecondsAfterEmpty |-> 0,
                      TerminationGracePeriodSeconds |-> 0, Budgets |-> <<>>]
        /\ last.output.disruption # Nil =>
              /\ Null \notin {last.output.disruption.consolidate_after,
                               last.output.disruption.consolidation_policy,
                               last.output.disruption.expire_after}
              /\ ~last.output.disruption.ttl_seconds_after_empty.null
              /\ ~last.output.disruption.termination_grace_period_seconds.null

EmptyDisruptionWitness ==
    /\ last.op = "NodePolicyPlan"
    /\ last.input.disruption = EmptyDisruption
    /\ last.wire.Disruption.ConsolidateAfter = "15m"
    /\ last.wire.Disruption.ExpireAfter = "720h"
    /\ last.wire.Disruption.TtlSecondsAfterEmpty = 0

\* C20: a node policy configured with only name, node_pool_name and
\* node_class_name (no disruption block) gets weight 10 and the disruption
\* defaults consolidate_after "15m", consolidation_policy
\* "WhenEmptyOrUnderutilized" and expire_after "720h", and these values are what
\* the create request carries.
MinimalPolicyCarriesDefaults ==
    (/\ last.op = "NodePolicyPlan"
     /\ last.input.description = Null
     /\ last.input.weight = Int32Null
     /\ last.input.disruption = Nil) =>
        /\ last.wire # Nil
        /\ last.wire.Weight = 10
        /\ last.wire.Disruption # Nil
        /\ last.wire.Disruption.ConsolidateAfter = "15m"
        /\ last.wire.Disruption.ConsolidationPolicy = "WhenEmptyOrUnderutilized"
        /\ last.wire.Disruption.ExpireAfter = "720h"

\* the input of the invocation was decoded and converted to its wire form
InputConverts ==
    last.op \in {"Create", "Update"} => ~ConversionFails(kind, last.plan)

\* UpdateCluster came back without an error and with a cluster
UpdateClusterSucceeded(rpcs) ==
    /\ Len(rpcs) >= 1
    /\ rpcs[1].rpc = "UpdateCluster"
    /\ rpcs[1].err = NoErr
    /\ rpcs[1].resp.Cluster # Nil

\* no RPC follows a failed one and no RPC is issued twice
NothingReissued(rpcs) ==
    /\ \A i \in 1..(Len(rpcs) - 1) : rpcs[i].err = NoErr
    /\ \A i, j \in 1..Len(rpcs) : rpcs[i].rpc = rpcs[j].rpc => i = j

\* C21 as stated: every handler invocation whose input decodes and converts
\* issues exactly one RPC and never re-issues a failed one, with exactly two
\* exceptions: Cluster Update with an empty or unknown token issues two
\* (UpdateCluster, then ResetClusterToken) and Delete of a NodePolicy or
\* NodePolicyTarget issues none.
OneRpcPerHandler ==
    (Handled({"Create", "Read", "Update", "Delete", "Import"}) /\ InputConverts) =>
        /\ NothingReissued(last.rpcs)
        /\ IF last.op = "Delete" /\ kind \in LocalDeleteKinds
           THEN last.rpcs = <<>>
           ELSE IF last.op = "Update" /\ kind = "cluster"
                   /\ PlannedTokenMissing(last.plan)
                THEN RpcNames(last.rpcs) = <<"UpdateCluster", "ResetClusterToken">>
                ELSE Len(last.rpcs) = 1

\* C21, amended: every Create, Read, Update and Delete invocation whose input
\* decodes and converts issues exactly one RPC, no RPC follows a failed one and
\* none is issued twice, except that Cluster Update with a null, empty or
\* unknown token issues ResetClusterToken after an UpdateCluster that succeeded
\* (and only then), that Delete of a NodePolicy or NodePolicyTarget issues none,
\* and that ImportState of every resource issues none.
OneRpcPerCrudHandler ==
    /\ (Handled({"Create", "Read", "Update", "Delete"}) /\ InputConverts) =>
          /\ NothingReissued(last.rpcs)
          /\ IF last.op = "Delete" /\ kind \in LocalDeleteKinds
             THEN last.rpcs = <<>>
             ELSE IF last.op = "Update" /\ kind = "cluster"
                     /\ PlannedTokenMissing(last.plan)
                     /\ UpdateClusterSucceeded(last.rpcs)
                  THEN RpcNames(last.rpcs) = <<"UpdateCluster", "ResetClusterToken">>
                  ELSE Len(last.rpcs) = 1
    /\ Handled({"Import"}) => last.rpcs = <<>>

OneRpcPerCrudHandlerWitness ==
    /\ last.op = "Update"
    /\ kind = "cluster"
    /\ PlannedTokenMissing(last.plan)
    /\ RpcNames(last.rpcs) = <<"UpdateCluster", "ResetClusterToken">>
    /\ last.rpcs[2].err = NoErr
    /\ last.rpcs[2].resp.Token = ""

\* the three clients of a client set
ServiceClients(set) ==
    {set.ClusterMutationClient, set.K8SServiceClient, set.RecommendationClient}

\* C22: every RPC sent through any of the three clients built by Configure
\* carries the header Authorization: Bearer <token>, with the token resolved at
\* Configure time; no request leaves without it, and later operations never
\* change the token or the team id the clients use.
BearerOnEveryRequest ==
    [][/\ (client = NoClient /\ client' # NoClient) =>
             /\ client'.token = Explicit(last'.data.token, last'.env.DEVZERO_TOKEN)
             /\ client'.TeamId = Explicit(last'.data.team_id, last'.env.DEVZERO_TEAM_ID)
             /\ \A c \in ServiceClients(client') :
                    c.Authorization = "Bearer " \o client'.token
       /\ client = NoClient => last'.rpcs = <<>>
       /\ client # NoClient =>
             /\ client' = client
             /\ \A i \in 1..Len(last'.rpcs) :
                    /\ last'.rpcs[i].Authorization = "Bearer " \o client.token
                    /\ "TeamId" \in DOMAIN last'.rpcs[i].req =>
                          last'.rpcs[i].req.TeamId = client.TeamId]_vars

BearerOnEveryRequestWitness ==
    /\ kind = "cluster"
    /\ last.op = "Read"
    /\ client.token = "token-env"
    /\ Len(last.rpcs) = 1
    /\ last.rpcs[1].rpc = "GetCluster"
    /\ last.rpcs[1].Authorization = "Bearer token-env"

\* whether an invocation called ResetClusterToken
ResetInvoked(rpcs) == \E i \in 1..Len(rpcs) : rpcs[i].rpc = "ResetClusterToken"

\* C23: for a cluster whose prior state holds a null or empty token (as right
\* after an import), ModifyPlan marks the planned token unknown, so that the
\* next Update rotates the token; once the state token is non-empty ModifyPlan
\* leaves the plan untouched, the token stays what it is and no later Update
\* invokes ResetClusterToken; ModifyPlan changes nothing when there is no prior
\* state (create) or no plan (destroy).
ModifyPlanForcesRotation ==
    [][kind = "cluster" =>
          /\ last'.op = "Create" => last'.plan = ClusterPlan(state, last'.plan.name)
          /\ last'.op = "Delete" => last'.plan = Nil
          /\ last'.op = "Update" =>
                IF state.token \in {Null, ""}
                THEN /\ last'.plan = [ClusterPlan(state, last'.plan.name)
                                         EXCEPT !.token = Unknown]
                     /\ UpdateClusterSucceeded(last'.rpcs) => ResetInvoked(last'.rpcs)
                     /\ last'.wrote => state'.token = last'.rpcs[2].resp.Token
                ELSE /\ last'.plan = ClusterPlan(state, last'.plan.name)
                     /\ ~ResetInvoked(last'.rpcs)
          /\ (state.present /\ state.token \notin {Null, ""} /\ state'.present) =>
                state'.token = state.token]_vars

ModifyPlanForcesRotationWitness ==
    /\ kind = "cluster"
    /\ last.op = "Update"
    /\ last.plan.token = "tok-2"
    /\ RpcNames(last.rpcs) = <<"UpdateCluster">>
    /\ last.wrote
    /\ state.token = "tok-2"

\* ResetClusterToken was called and returned an error or an empty token
ResetFailed(rpcs) ==
    /\ Len(rpcs) = 2
    /\ rpcs[2].rpc = "ResetClusterToken"
    /\ IF rpcs[2].err # NoErr THEN TRUE ELSE rpcs[2].resp.Token = ""

\* C24: if during Cluster Update the UpdateCluster RPC succeeds but
\* ResetClusterToken then returns an error or an empty token, the operation
\* reports an error, writes no state and makes no compensating call: the
\* backend has accepted the request carrying the new name and nothing is sent
\* after the reset, while local state keeps the previous name and the empty
\* token.
FailedResetLeavesRename ==
    [][(/\ kind = "cluster"
        /\ last'.op = "Update"
        /\ UpdateClusterSucceeded(last'.rpcs)
        /\ ResetFailed(last'.rpcs)) =>
          /\ HasError(last'.diags)
          /\ ~last'.wrote
          /\ state' = state
          /\ state.token \in {Null, ""}
          /\ RpcNames(last'.rpcs) = <<"UpdateCluster", "ResetClusterToken">>
          /\ last'.rpcs[1].req.ClusterName = last'.plan.name
          /\ last'.rpcs[1].req.ClusterId = state.id
          /\ remote' = remote]_vars

FailedResetLeavesRenameWitness ==
    /\ kind = "cluster"
    /\ last.op = "Update"
    /\ UpdateClusterSucceeded(last.rpcs)
    /\ ResetFailed(last.rpcs)
    /\ last.rpcs[2].err = "unavailable"
    /\ last.rpcs[1].req.ClusterName = "beta"
    /\ state.name = Null
    /\ state.token = Null

\* what converting one element of a list gives, and whether it fails
ElementError(value) ==
    IF value = Unknown THEN "unhandled unknown value"
    ELSE IF value \in NineKindNames THEN NoErr
    ELSE "invalid kind: " \o value

\* the positions of a list whose element fails, in order
FailingPositions(values) ==
    SelectSeq([i \in 1..Len(values) |-> i], LAMBDA i : ElementError(values[i]) # NoErr)

\* C25: getElementList returns the converted elements in input order with a
\* nil error exactly when every element converts; if any element fails it
\* returns no elements at all together with one error that joins the errors of
\* all failing elements, in order (conversion continues past the first failure
\* and no partial list is returned).
ElementListAllOrNothing ==
    last.op = "getElementList" =>
        LET failing == FailingPositions(last.input)
        IN /\ (last.wire.err = <<>>) <=> (failing = <<>>)
           /\ failing = <<>> =>
                 /\ Len(last.wire.elements) = Len(last.input)
                 /\ \A i \in 1..Len(last.input) :
                        last.wire.elements[i] = KindConverter(last.input[i]).val
           /\ failing # <<>> =>
                 /\ last.wire.elements = <<>>
                 /\ Len(last.wire.err) = Len(failing)
                 /\ \A k \in 1..Len(failing) :
                        last.wire.err[k] = ElementError(last.input[failing[k]])

ElementListAllOrNothingWitness ==
    /\ last.op = "getElementList"
    /\ last.input = <<"Gadget", "Pod", Unknown>>
    /\ last.wire.elements = <<>>
    /\ last.output = "invalid kind: Gadget\nunhandled unknown value"

\* C26: after every successful Create or Update of a cluster, the token held
\* in local state is non-empty: Create refuses a response whose token is empty,
\* and Update rotates an empty, null or unknown token before writing state.
ClusterTokenNeverEmpty ==
    (kind = "cluster" /\ Handled({"Create", "Update"})) =>
        /\ (last.wrote /\ ~HasError(last.diags)) =>
              /\ state.present
              /\ state.token \notin {Null, Unknown, ""}
        /\ (last.op = "Create" /\ last.rpcs[1].err = NoErr
                /\ last.rpcs[1].resp.Token = "") =>
              (HasError(last.diags) /\ ~last.wrote)
        /\ (last.op = "Update" /\ last.wrote /\ PlannedTokenMissing(last.plan)) =>
              /\ ResetInvoked(last.rpcs)
              /\ state.token = last.rpcs[2].resp.Token

ClusterTokenNeverEmptyWitness ==
    /\ kind = "cluster"
    /\ last.op = "Create"
    /\ last.wrote
    /\ last.rpcs[1].resp.Token = "tok-1"
    /\ state.token = "tok-1"

\* the name of a remote cluster: its custom name, or its base name without one
RemoteName(cluster) ==
    IF cluster.CustomName = "" THEN cluster.Name ELSE cluster.CustomName

\* C27: for a fixed remote cluster, Update and Read store the same name in
\* state (the remote custom name if it is non-empty, otherwise the remote base
\* name), so an Update followed by a Read that is answered with the same
\* cluster never changes the name held in state.
UpdateAndReadStoreSameName ==
    [][kind = "cluster" =>
          /\ (last'.op \in {"Update", "Read"} /\ last'.wrote) =>
                state'.name = RemoteName(last'.rpcs[1].resp.Cluster)
          /\ (/\ last.op = "Update" /\ last.wrote
              /\ last'.op = "Read" /\ last'.wrote
              /\ last'.rpcs[1].resp.Cluster = last.rpcs[1].resp.Cluster) =>
                state'.name = state.name]_vars

\* C28: in WorkloadPolicy and WorkloadPolicyTarget, decoding a backend response
\* never changes whether a nested block (namespace_selector, workload_selector,
\* name_pattern, the four vertical scaling blocks, horizontal_scaling) is
\* present in the model: a block absent from the model stays absent even when
\* the response carries it, and a block present in the model stays present,
\* with its old values when the response omits it.
DecodeKeepsBlockPresence ==
    last.op = "NestedBlockDecode" =>
        /\ (last.output = Nil) <=> (last.input.block = Nil)
        /\ last.wire = Nil => last.output = last.input.block

DecodeKeepsBlockPresenceWitness ==
    /\ last.op = "NestedBlockDecode"
    /\ last.input.field = "name_pattern"
    /\ last.input.block = Nil
    /\ last.wire = [nil |-> FALSE, Pattern |-> "api-.*", Flags |-> ""]
    /\ last.output = Nil

\* C29: every attribute of a workload policy that the user can configure
\* influences the create and update request: two planned records that differ
\* in one configurable attribute (for example loopback_period_seconds or
\* startup_period_seconds) are encoded by toProto to different wire messages.
EveryAttributeReachesRequest ==
    last.op = "WorkloadPolicyEncodePair" =>
        /\ last.wire[1] # Nil
        /\ last.wire[2] # Nil
        /\ last.wire[1] # last.wire[2]

\* C30: the two decoders of a wire label selector, labelSelectorFromProto (used
\* for NodePolicy) and LabelSelector.fromProto (used for WorkloadPolicyTarget),
\* produce the same LabelSelector for every wire selector, including one whose
\* match_labels map is present but empty, one with no match expressions and
\* one with an unmapped operator.
LabelSelectorDecodersAgree ==
    last.op = "LabelSelectorDecode" => last.output.node = last.output.target

====
